---- MODULE Spec2Model ----
(***************************************************************************)
(* PostHogTours (src/unnamed/part_002, lines 1-329): tour eligibility,     *)
(* the single active-tour gate, element and visibility watchers and the    *)
(* two-store seen state.                                                   *)
(*                                                                         *)
(* One action is one uninterrupted synchronous run of JavaScript: a public *)
(* call up to the point where it returns or suspends at an await, a        *)
(* continuation resumed from the microtask queue, a timer or observer      *)
(* callback.  Calls a handler makes are part of its action.                *)
(*                                                                         *)
(* Faults of the two stores are state of the environment: the stored text  *)
(* may fail to parse (corrupt), localStorage.setItem may throw              *)
(* (setItemFails), posthog.people.set may throw (peopleSetFails).  Spec and *)
(* the specifications of single features start without faults and have no  *)
(* action that raises one; SpecFaults ranges over them.                     *)
(***************************************************************************)
EXTENDS Naturals, Sequences, FiniteSets, TLC

NULL == "null"

\* Bound: evaluations (checkTourEligibility / checkAllTours calls) in flight.
MaxEvals == 2

\* Bound: public calls and changes of the environment in one behaviour.
MaxEvents == 3

Slots == 1..MaxEvals

\* ------------------------------------------------------------- options ----
\* Tour definitions the registries below are built from.  Every tour has a
\* target selector except "n"; every tour has an onEligible except "q".
TourIds == {"a", "b", "c", "n", "q"}

\* Ids that name a property of Object.prototype, which `this.tours[id]` finds
\* in a registry that has no such key; what it finds has no target.
InheritedIds == {"toString"}

Target(t) == t \notin {"n"} \cup InheritedIds

OnEligible(t) == t # "q"

\* `${this.userPropertyPrefix}${tourId}`: a key is the pair of its prefix and
\* the rest, so that startsWith is a test of the first component.
Key(prefix, t) == <<prefix, t>>

UserPropertyPrefix == "seen_tour_"

StartsWith(key, prefix) == key[1] = prefix

\* A person property that is no tour key.
OtherProperty == <<"", "other_property">>

VARIABLES
  tours,                  \* this.tours: the registry, in insertion order
  checkVis,               \* this.shouldCheckElementVisibility
  defaultOnEligible,      \* whether options.defaultOnEligible was given
  loaded,                 \* posthog.__loaded
  built,                  \* an instance has been constructed
  flag,                   \* posthog.isFeatureEnabled, per tour id
  elem,                   \* the target element: "absent", "hidden", "inview"
  remote,                 \* truthy keys of $stored_person_properties
  local,                  \* localStorage posthog_tours_seen: the keys held true
  corrupt,                \* the text stored under posthog_tours_seen does not parse
  debug,                  \* this.debug
  setItemFails,           \* localStorage.setItem throws
  peopleSetFails,         \* posthog.people.set throws
  activeTourId,           \* this.activeTourId
  observers,              \* this.observers: tour ids with a live MutationObserver
  intersectionObservers,  \* this.intersectionObservers: tour id -> slot of the observer, 0 if none
  evals,                  \* evaluations in flight, and what their visibility waits left behind
  timerq,                 \* pending 30 s timers, oldest first
  fired,                  \* tours whose callback an evaluation invoked since the last markTourAsSeen
  marked,                 \* per tour id, the markTourAsSeen calls made so far
  events,                 \* public calls and environment changes so far
  log                     \* the effects of the last step, in order

vars == <<tours, checkVis, defaultOnEligible, loaded, built, flag, elem, remote, local,
          corrupt, debug, setItemFails, peopleSetFails, activeTourId, observers, intersectionObservers, evals, timerq, fired, marked,
          events, log>>

env == <<tours, checkVis, defaultOnEligible, loaded, flag, elem, remote, debug,
         setItemFails, peopleSetFails>>

\* --------------------------------------------------- instance state --------
\* TourEligibilityResult before anything was read.
NoResult ==
  [eligible |-> FALSE, element |-> NULL, tourId |-> NULL, flagEnabled |-> FALSE,
   targetPresent |-> FALSE, alreadySeen |-> FALSE]

\* A slot holds one call in flight.  pc:
\*   "micro"  checkVisibility's promise is resolved (to vis); the continuation
\*            of checkTourEligibility waits in the microtask queue
\*   "wait"   suspended on the IntersectionObserver and the timer
\*   "ret"    (checkAllTours) checkTourEligibility returned res; the loop's
\*            continuation waits in the microtask queue
\*   "done"   the call returned; its timer is still pending
\* all/idx/results: the checkAllTours loop that awaits this evaluation.
\* conn: the slot's IntersectionObserver is connected.  timer: its timer is
\* pending.
FreeSlot ==
  [pc |-> "free", tour |-> NULL, all |-> FALSE, idx |-> 0, results |-> <<>>,
   vis |-> FALSE, res |-> NoResult, conn |-> FALSE, timer |-> FALSE]

\* The mutable state one synchronous run threads through its calls.  ok turns
\* FALSE when a run would need more than MaxEvals slots.
Cur ==
  [local |-> local, corrupt |-> corrupt, active |-> activeTourId, obs |-> observers,
   io |-> intersectionObservers, evals |-> evals, timerq |-> timerq,
   fired |-> fired, marked |-> marked, log |-> <<>>, ok |-> TRUE]

Emit(M, e) == [M EXCEPT !.log = Append(@, e)]

\* Variant of Log that prints whatever debug is.
Log_Always(M, level, what) ==
  Emit(M, [op |-> "console", level |-> level, what |-> what])

\* Lines 44-48, this.log: a diagnostic reaches the console only with debug on.
Log(M, level, what) ==
  IF debug THEN Emit(M, [op |-> "console", level |-> level, what |-> what]) ELSE M

Registered(t) == \E i \in 1..Len(tours) : tours[i] = t

\* this.tours[tourId]?.name: the name a registered tour was given.
TourName(t) == IF Registered(t) THEN <<"name", t>> ELSE "undefined"

\* tour.onEligible || this.defaultOnEligible
CallbackOf(t) ==
  IF OnEligible(t) THEN t ELSE IF defaultOnEligible THEN "default" ELSE NULL

\* ------------------------------------------------------- seen state --------
\* Variant of getSeenToursFromStorage that reads unparsable text as the
\* empty map and leaves it stored.
getSeenToursFromStorage_KeepsText(M) ==
  IF M.corrupt
    THEN [m |-> Log(M, "warn", "parse"), ret |-> {}]
    ELSE [m |-> M, ret |-> M.local]

\* Lines 171-182.  Returns the state after the call and the map read: text
\* that does not parse is reported, removed and read as the empty map.
getSeenToursFromStorage(M) ==
  IF M.corrupt
    THEN [m |-> Emit(Log([M EXCEPT !.corrupt = FALSE, !.local = {}], "warn", "parse"),
                     [op |-> "removeItem"]),
          ret |-> {}]
    ELSE [m |-> M, ret |-> M.local]

\* Lines 184-191: a setItem that throws is reported and nothing is stored.
saveSeenToursToStorage(M, seenTours) ==
  IF setItemFails
    THEN Log(Emit(M, [op |-> "setItemThrows", value |-> seenTours]), "error", "save")
    ELSE Emit([M EXCEPT !.local = seenTours, !.corrupt = FALSE],
              [op |-> "setItem", value |-> seenTours, had |-> M.local])

\* Variant of hasTourBeenSeen that asks the remote snapshot only (as
\* src/src/PostHogTours.ts, which has no local store, does).
hasTourBeenSeen_RemoteOnly(M, t) ==
  LET key == Key(UserPropertyPrefix, t)
  IN  [m |-> Emit(M, [op |-> "hasTourBeenSeen", key |-> key, ret |-> key \in remote,
                      inLocal |-> key \in M.local, inRemote |-> key \in remote,
                      readRemote |-> TRUE, wrote |-> FALSE]),
       ret |-> key \in remote]

\* Variant of hasTourBeenSeen that does not write a remote hit to the local
\* store.
hasTourBeenSeen_NoSync(M, t) ==
  LET key == Key(UserPropertyPrefix, t)
      ret == key \in M.local \/ key \in remote
  IN  [m |-> Emit(M, [op |-> "hasTourBeenSeen", key |-> key, ret |-> ret,
                      inLocal |-> key \in M.local, inRemote |-> key \in remote,
                      readRemote |-> key \notin M.local, wrote |-> FALSE]),
       ret |-> ret]

\* Variant of hasTourBeenSeen whose sync of a remote hit stores that key
\* alone.
hasTourBeenSeen_SyncOverwrites(M, t) ==
  LET key == Key(UserPropertyPrefix, t)
      g == getSeenToursFromStorage(M)
      seenTours == g.ret
      seenInPostHog == key \in remote
      entry(ret, readRemote, wrote) ==
        [op |-> "hasTourBeenSeen", key |-> key, ret |-> ret,
         inLocal |-> key \in seenTours, inRemote |-> key \in remote,
         readRemote |-> readRemote, wrote |-> wrote]
  IN  IF key \in seenTours
        THEN [m |-> Emit(g.m, entry(TRUE, FALSE, FALSE)), ret |-> TRUE]
      ELSE IF seenInPostHog
        THEN [m |-> Emit(saveSeenToursToStorage(g.m, {key}),
                         entry(TRUE, TRUE, ~setItemFails)),
              ret |-> TRUE]
      ELSE [m |-> Emit(g.m, entry(FALSE, TRUE, FALSE)), ret |-> FALSE]

\* Returns the state after the call and the value returned.
hasTourBeenSeen(M, t) ==
  LET key == Key(UserPropertyPrefix, t)
      g == getSeenToursFromStorage(M)
      seenTours == g.ret
      seenInPostHog == key \in remote
      entry(ret, readRemote, wrote) ==
        [op |-> "hasTourBeenSeen", key |-> key, ret |-> ret,
         inLocal |-> key \in seenTours, inRemote |-> key \in remote,
         readRemote |-> readRemote, wrote |-> wrote]
  IN  IF key \in seenTours
        THEN [m |-> Emit(g.m, entry(TRUE, FALSE, FALSE)), ret |-> TRUE]
      ELSE IF seenInPostHog
        THEN [m |-> Emit(saveSeenToursToStorage(g.m, seenTours \cup {key}),
                         entry(TRUE, TRUE, ~setItemFails)),
              ret |-> TRUE]
      ELSE [m |-> Emit(g.m, entry(FALSE, TRUE, FALSE)), ret |-> FALSE]

\* Variant of syncLocalStorageWithPostHog without the startsWith test.
syncLocalStorageWithPostHog_AnyKey(M) ==
  LET g == getSeenToursFromStorage(M)
      missing == {k \in remote : k \notin g.ret}
  IN  IF missing # {} THEN saveSeenToursToStorage(g.m, g.ret \cup missing) ELSE g.m

syncLocalStorageWithPostHog(M) ==
  LET g == getSeenToursFromStorage(M)
      seenTours == g.ret
      missing == {k \in remote : StartsWith(k, UserPropertyPrefix) /\ k \notin seenTours}
  IN  IF missing # {} THEN saveSeenToursToStorage(g.m, seenTours \cup missing) ELSE g.m

\* ------------------------------------------------------- evaluation --------
\* Variant of Claim that does not look at the gate (as src/src/PostHogTours.ts,
\* which has no gate, invokes the callback).
Claim_Ungated(M, t, res) ==
  LET onEligible == CallbackOf(t)
      M1 == Emit([M EXCEPT !.active = t], [op |-> "claim", tour |-> t])
  IN  IF onEligible # NULL /\ res.element # NULL
        THEN Emit([M1 EXCEPT !.fired = @ \cup {t}],
                  [op |-> "onEligible", tour |-> t, cb |-> onEligible,
                   via |-> "eligible", gate |-> M.active])
        ELSE M1

\* Variant of Claim that tests the gate but never occupies it.
Claim_NoSet(M, t, res) ==
  LET onEligible == CallbackOf(t)
      M1 == Emit(M, [op |-> "claim", tour |-> t])
      M2 == IF onEligible # NULL /\ res.element # NULL
              THEN Emit([M1 EXCEPT !.fired = @ \cup {t}],
                        [op |-> "onEligible", tour |-> t, cb |-> onEligible,
                         via |-> "eligible", gate |-> M.active])
              ELSE M1
  IN  IF M.active = NULL THEN M2 ELSE M

\* Lines 153-168: eligible, and the claim of the active-tour gate.
Claim(M, t, res) ==
  LET onEligible == CallbackOf(t)
      M1 == Emit([M EXCEPT !.active = t], [op |-> "claim", tour |-> t])
      M2 == IF onEligible # NULL /\ res.element # NULL
              THEN Emit([M1 EXCEPT !.fired = @ \cup {t}],
                        [op |-> "onEligible", tour |-> t, cb |-> onEligible,
                         via |-> "eligible", gate |-> M.active])
              ELSE M1
  IN  IF M.active = NULL THEN M2 ELSE M

\* Variant of Finish that claims the gate and leaves eligible as it was.
Finish_KeepsResult(M, t, res) ==
  [m |-> Claim(M, t, res), kind |-> "return", res |-> res]

Finish(M, t, res) ==
  [m |-> Claim(M, t, res), kind |-> "return", res |-> [res EXCEPT !.eligible = TRUE]]

\* Variant of EvalStart whose early return does not test the flag.
EvalStart_IgnoresFlag(M, t) ==
  LET present == elem[t] # "absent"
      h == hasTourBeenSeen(M, t)
      res == [eligible |-> FALSE, element |-> IF present THEN t ELSE NULL,
              tourId |-> t, flagEnabled |-> flag[t],
              targetPresent |-> present, alreadySeen |-> h.ret]
  IN  IF ~Target(t)
        THEN [m |-> h.m, kind |-> "return",
              res |-> [res EXCEPT !.element = NULL, !.targetPresent = FALSE]]
      ELSE IF ~present \/ h.ret
        THEN [m |-> h.m, kind |-> "return", res |-> res]
      ELSE IF checkVis
        THEN [m |-> h.m, kind |-> IF elem[t] = "inview" THEN "micro" ELSE "wait",
              res |-> res]
      ELSE Finish(h.m, t, res)

\* Variant of EvalStart that tests the flag only on the path that checks
\* visibility.
EvalStart_FlagOnlyWhenVisible(M, t) ==
  LET present == elem[t] # "absent"
      flagEnabled == flag[t]
      h == hasTourBeenSeen(M, t)
      res == [eligible |-> FALSE, element |-> IF present THEN t ELSE NULL,
              tourId |-> t, flagEnabled |-> flagEnabled,
              targetPresent |-> present, alreadySeen |-> h.ret]
  IN  IF ~Target(t)
        THEN [m |-> h.m, kind |-> "return",
              res |-> [res EXCEPT !.element = NULL, !.targetPresent = FALSE]]
      ELSE IF ~present \/ h.ret
        THEN [m |-> h.m, kind |-> "return", res |-> res]
      ELSE IF checkVis
        THEN IF ~flagEnabled
               THEN [m |-> h.m, kind |-> "return", res |-> res]
               ELSE [m |-> h.m, kind |-> IF elem[t] = "inview" THEN "micro" ELSE "wait",
                     res |-> res]
      ELSE Finish(h.m, t, res)

\* Variant of EvalStart that finds a tour without target eligible from flag
\* and seen state alone.
EvalStart_NoTargetByFlag(M, t) ==
  LET present == elem[t] # "absent"
      flagEnabled == flag[t]
      h == hasTourBeenSeen(M, t)
      res == [eligible |-> FALSE, element |-> IF present THEN t ELSE NULL,
              tourId |-> t, flagEnabled |-> flagEnabled,
              targetPresent |-> present, alreadySeen |-> h.ret]
  IN  IF ~Registered(t) /\ t \notin InheritedIds
        THEN [m |-> M, kind |-> "reject", res |-> NoResult]
      ELSE IF ~Target(t)
        THEN IF flagEnabled /\ ~h.ret
               THEN Finish(h.m, t, [res EXCEPT !.element = NULL, !.targetPresent = FALSE])
               ELSE [m |-> h.m, kind |-> "return",
                     res |-> [res EXCEPT !.element = NULL, !.targetPresent = FALSE]]
      ELSE IF ~present \/ ~flagEnabled \/ h.ret
        THEN [m |-> h.m, kind |-> "return", res |-> res]
      ELSE IF checkVis
        THEN [m |-> h.m, kind |-> IF elem[t] = "inview" THEN "micro" ELSE "wait",
              res |-> res]
      ELSE Finish(h.m, t, res)

\* Lines 112-151: checkTourEligibility up to its return or its suspension.
\* kind: "return" (with res), or how checkVisibility left it: "micro" when the
\* element is in the viewport, "wait" when an IntersectionObserver was set up;
\* "reject" when this.tours[tourId] is undefined and tour.target (line 114)
\* throws a TypeError, which rejects the promise the call returns.
EvalStart(M, t) ==
  LET present == elem[t] # "absent"
      flagEnabled == flag[t]
      h == hasTourBeenSeen(M, t)
      res == [eligible |-> FALSE, element |-> IF present THEN t ELSE NULL,
              tourId |-> t, flagEnabled |-> flagEnabled,
              targetPresent |-> present, alreadySeen |-> h.ret]
  IN  IF ~Registered(t) /\ t \notin InheritedIds
        THEN [m |-> M, kind |-> "reject", res |-> NoResult]
      ELSE IF ~Target(t)
        THEN [m |-> h.m, kind |-> "return",
              res |-> [res EXCEPT !.element = NULL, !.targetPresent = FALSE]]
      ELSE IF ~present \/ ~flagEnabled \/ h.ret
        THEN [m |-> h.m, kind |-> "return", res |-> res]
      ELSE IF checkVis
        THEN [m |-> h.m, kind |-> IF elem[t] = "inview" THEN "micro" ELSE "wait",
              res |-> res]
      ELSE Finish(h.m, t, res)

\* The lowest free slot, 0 when there is none.
NewSlot(M) ==
  IF \E s \in Slots : M.evals[s].pc = "free"
    THEN CHOOSE s \in Slots : M.evals[s].pc = "free"
                              /\ \A r \in Slots : M.evals[r].pc = "free" => s <= r
    ELSE 0

\* Variant of Suspend whose promise resolves false as soon as the element is
\* found outside the viewport.
Suspend_ResolvesFalseAtOnce(M, s, r, t, all, idx, results) ==
  LET e == [FreeSlot EXCEPT !.pc = "micro", !.tour = t, !.all = all, !.idx = idx,
                            !.results = results, !.res = r.res]
  IN  IF r.kind = "micro"
        THEN [r.m EXCEPT !.evals[s] = [e EXCEPT !.vis = TRUE]]
        ELSE Emit([r.m EXCEPT !.evals[s] = [e EXCEPT !.conn = TRUE, !.timer = TRUE],
                             !.io[t] = s,
                             !.timerq = Append(@, s)],
                  [op |-> "observe", kind |-> "intersection", tour |-> t])

\* Lines 193-230, checkVisibility, for the evaluation r held in slot s.
Suspend(M, s, r, t, all, idx, results) ==
  LET e == [FreeSlot EXCEPT !.pc = r.kind, !.tour = t, !.all = all, !.idx = idx,
                            !.results = results, !.res = r.res]
  IN  IF r.kind = "micro"
        THEN [r.m EXCEPT !.evals[s] = [e EXCEPT !.vis = TRUE]]
        ELSE Emit([r.m EXCEPT !.evals[s] = [e EXCEPT !.conn = TRUE, !.timer = TRUE],
                             !.io[t] = s,
                             !.timerq = Append(@, s)],
                  [op |-> "observe", kind |-> "intersection", tour |-> t])

Return(M, res, vis) == Emit(M, [op |-> "return", res |-> res, vis |-> vis])

\* A slot whose call has returned: kept while its timer is pending.
Release(M, s) ==
  IF M.evals[s].timer
    THEN [M EXCEPT !.evals[s] = [FreeSlot EXCEPT !.pc = "done", !.tour = M.evals[s].tour,
                                                  !.timer = TRUE]]
    ELSE [M EXCEPT !.evals[s] = FreeSlot]

\* checkTourEligibility(t) called by monitorElement, a watcher or the caller.
Call(M, t) ==
  LET r == EvalStart(M, t)
      s == NewSlot(r.m)
  IN  IF r.kind = "return" THEN Return(r.m, r.res, "none")
      ELSE IF r.kind = "reject"
        THEN Emit(r.m, [op |-> "reject", error |-> "TypeError", tour |-> t])
      ELSE IF s = 0 THEN [M EXCEPT !.ok = FALSE]
      ELSE Suspend(M, s, r, t, FALSE, 0, <<>>)

\* Variant of Loop that returns after the first result whatever it is.
Loop_ReturnsEarly(M, s, idx, results) ==
  IF idx > 1
    THEN Release(Emit(M, [op |-> "returnAll", results |-> results]), s)
    ELSE LET t == tours[idx]
             r == EvalStart(M, t)
         IN  IF r.kind = "return"
               THEN [Return(r.m, r.res, "none") EXCEPT
                       !.evals[s] = [FreeSlot EXCEPT !.pc = "ret", !.tour = t, !.all = TRUE,
                                                     !.idx = idx, !.results = results,
                                                     !.res = r.res]]
               ELSE Suspend(M, s, r, t, TRUE, idx, results)

\* Lines 278-292: the loop of checkAllTours at registry index idx, in slot s,
\* up to its await.
Loop(M, s, idx, results) ==
  IF idx > Len(tours)
    THEN Release(Emit(M, [op |-> "returnAll", results |-> results]), s)
    ELSE LET t == tours[idx]
             r == EvalStart(M, t)
         IN  IF r.kind = "return"
               THEN [Return(r.m, r.res, "none") EXCEPT
                       !.evals[s] = [FreeSlot EXCEPT !.pc = "ret", !.tour = t, !.all = TRUE,
                                                     !.idx = idx, !.results = results,
                                                     !.res = r.res]]
               ELSE Suspend(M, s, r, t, TRUE, idx, results)

checkAllTours(M) ==
  LET s == NewSlot(M)
  IN  IF tours = <<>> THEN Emit(M, [op |-> "returnAll", results |-> <<>>])
      ELSE IF s = 0 THEN [M EXCEPT !.ok = FALSE]
      ELSE Loop(M, s, 1, <<>>)

\* Lines 86-110, monitorElement.
monitorElement(M, t) ==
  IF elem[t] # "absent"
    THEN Call(M, t)
    ELSE Emit([M EXCEPT !.obs = @ \cup {t}],
              [op |-> "observe", kind |-> "mutation", tour |-> t])

\* Lines 70-76: every registered flag is queried; missing flags are only
\* reported.
validateFeatureFlags(M) ==
  LET missingFlags == {tours[i] : i \in {j \in DOMAIN tours : ~flag[tours[j]]}}
      M1 == Emit(M, [op |-> "isFeatureEnabled", queried |-> {tours[i] : i \in DOMAIN tours},
                     missing |-> missingFlags])
  IN  IF missingFlags # {} THEN Log(M1, "warn", "flags") ELSE M1

RECURSIVE MonitorFrom(_, _)
\* Lines 78-84, startMonitoringTours, from registry index i on.
MonitorFrom(M, i) ==
  IF i > Len(tours) THEN M
  ELSE MonitorFrom(IF Target(tours[i]) THEN monitorElement(M, tours[i]) ELSE M, i + 1)

startMonitoringTours(M) == MonitorFrom(M, 1)

\* Variant of markTourAsSeen that writes a store holding this key alone.
markTourAsSeen_Overwrite(M, t) ==
  LET key == Key(UserPropertyPrefix, t)
      M1 == Emit(M, [op |-> "people.set", key |-> key])
      M2 == saveSeenToursToStorage(M1, {key})
      M3 == Emit(M2, [op |-> "capture", event |-> "tour_seen", tour |-> t,
                      name |-> TourName(t)])
      M4 == Emit([M3 EXCEPT !.active = NULL, !.fired = {}, !.marked[t] = @ + 1],
                 [op |-> "clear", held |-> M3.active])
  IN  checkAllTours(M4)

\* Variant of markTourAsSeen that flips the key.
markTourAsSeen_Toggle(M, t) ==
  LET key == Key(UserPropertyPrefix, t)
      seenTours == getSeenToursFromStorage(M).ret
      M1 == Emit(M, [op |-> "people.set", key |-> key])
      M2 == saveSeenToursToStorage(M1, IF key \in seenTours THEN seenTours \ {key}
                                       ELSE seenTours \cup {key})
      M3 == Emit(M2, [op |-> "capture", event |-> "tour_seen", tour |-> t,
                      name |-> TourName(t)])
      M4 == Emit([M3 EXCEPT !.active = NULL, !.fired = {}, !.marked[t] = @ + 1],
                 [op |-> "clear", held |-> M3.active])
  IN  checkAllTours(M4)

\* Variant of markTourAsSeen in which what localStorage.setItem throws is not
\* caught.
markTourAsSeen_WriteUncaught(M, t) ==
  LET key == Key(UserPropertyPrefix, t)
      M1 == Emit(M, [op |-> "people.set", key |-> key])
      g == getSeenToursFromStorage(M1)
      M2 == saveSeenToursToStorage(g.m, g.ret \cup {key})
      M3 == Emit(M2, [op |-> "capture", event |-> "tour_seen", tour |-> t,
                      name |-> TourName(t)])
      M4 == Emit([M3 EXCEPT !.active = NULL, !.fired = {}, !.marked[t] = @ + 1],
                 [op |-> "clear", held |-> M3.active])
  IN  IF peopleSetFails
        THEN Emit(M1, [op |-> "throw", error |-> "people.set"])
      ELSE IF setItemFails
        THEN Emit(M2, [op |-> "throw", error |-> "setItem"])
      ELSE checkAllTours(M4)

\* Variant of markTourAsSeen that leaves the remote store alone.
markTourAsSeen_LocalOnly(M, t) ==
  LET key == Key(UserPropertyPrefix, t)
      g == getSeenToursFromStorage(M)
      M2 == saveSeenToursToStorage(g.m, g.ret \cup {key})
      M3 == Emit(M2, [op |-> "capture", event |-> "tour_seen", tour |-> t,
                      name |-> TourName(t)])
      M4 == Emit([M3 EXCEPT !.active = NULL, !.fired = {}, !.marked[t] = @ + 1],
                 [op |-> "clear", held |-> M3.active])
  IN  checkAllTours(M4)

\* Variant of markTourAsSeen that clears the gate before it writes the seen
\* state.
markTourAsSeen_ClearsFirst(M, t) ==
  LET key == Key(UserPropertyPrefix, t)
      M0 == Emit([M EXCEPT !.active = NULL, !.fired = {}, !.marked[t] = @ + 1],
                 [op |-> "clear", held |-> M.active])
      M1 == Emit(M0, [op |-> "people.set", key |-> key])
      g == getSeenToursFromStorage(M1)
      M2 == saveSeenToursToStorage(g.m, g.ret \cup {key})
      M3 == Emit(M2, [op |-> "capture", event |-> "tour_seen", tour |-> t,
                      name |-> TourName(t)])
  IN  IF peopleSetFails
        THEN Emit(M1, [op |-> "throw", error |-> "people.set"])
        ELSE checkAllTours(M3)

\* Lines 254-276.  Nothing catches what posthog.people.set throws: the call
\* ends there and the exception reaches the caller.
markTourAsSeen(M, t) ==
  LET key == Key(UserPropertyPrefix, t)
      M1 == Emit(M, [op |-> "people.set", key |-> key])
      g == getSeenToursFromStorage(M1)
      M2 == saveSeenToursToStorage(g.m, g.ret \cup {key})
      M3 == Emit(M2, [op |-> "capture", event |-> "tour_seen", tour |-> t,
                      name |-> TourName(t)])
      M4 == Emit([M3 EXCEPT !.active = NULL, !.fired = {}, !.marked[t] = @ + 1],
                 [op |-> "clear", held |-> M3.active])
  IN  IF peopleSetFails
        THEN Emit(M1, [op |-> "throw", error |-> "people.set"])
        ELSE checkAllTours(M4)

\* Variant of reset that also empties the gate.
reset_ClearsGate(M) ==
  LET disconnected ==
        [s \in Slots |->
           IF \E t \in TourIds : M.io[t] = s THEN [M.evals[s] EXCEPT !.conn = FALSE]
           ELSE M.evals[s]]
      M1 == Emit([M EXCEPT !.obs = {}, !.io = [t \in TourIds |-> 0],
                           !.evals = disconnected, !.active = NULL],
                 [op |-> "disconnect", mutation |-> M.obs,
                  intersection |-> {t \in TourIds : M.io[t] # 0}])
  IN  startMonitoringTours(M1)

\* Lines 294-304.
reset(M) ==
  LET disconnected ==
        [s \in Slots |->
           IF \E t \in TourIds : M.io[t] = s THEN [M.evals[s] EXCEPT !.conn = FALSE]
           ELSE M.evals[s]]
      M1 == Emit([M EXCEPT !.obs = {}, !.io = [t \in TourIds |-> 0],
                           !.evals = disconnected],
                 [op |-> "disconnect", mutation |-> M.obs,
                  intersection |-> {t \in TourIds : M.io[t] # 0}])
  IN  startMonitoringTours(M1)

\* Lines 306-308, this.tours[flagKey].  Returns the state and the definition,
\* the tour id standing for it, or "undefined".  The registry is a plain
\* object, so a key it does not hold is looked up in Object.prototype.
getTourConfig(M, t) ==
  [m |-> M, ret |-> IF Registered(t) THEN t
                    ELSE IF t \in InheritedIds THEN "Object.prototype.toString"
                    ELSE "undefined"]

\* Variant of forceTour that gives way to a tour holding the gate.
forceTour_Gated(M, t) ==
  LET onEligible == CallbackOf(t)
  IN  IF ~Registered(t) \/ ~Target(t) THEN [m |-> M, ret |-> FALSE]
      ELSE IF elem[t] = "absent" THEN [m |-> M, ret |-> FALSE]
      ELSE IF onEligible # NULL /\ M.active \in {NULL, t}
        THEN [m |-> Emit(M, [op |-> "onEligible", tour |-> t, cb |-> onEligible,
                             via |-> "force", gate |-> M.active]),
              ret |-> TRUE]
      ELSE [m |-> M, ret |-> FALSE]

\* Variant of forceTour that gives up when the flag is off.
forceTour_ChecksFlag(M, t) ==
  LET onEligible == CallbackOf(t)
  IN  IF ~Registered(t) \/ ~Target(t) \/ ~flag[t] THEN [m |-> M, ret |-> FALSE]
      ELSE IF elem[t] = "absent" THEN [m |-> M, ret |-> FALSE]
      ELSE IF onEligible # NULL
        THEN [m |-> Emit(M, [op |-> "onEligible", tour |-> t, cb |-> onEligible,
                             via |-> "force", gate |-> M.active]),
              ret |-> TRUE]
      ELSE [m |-> M, ret |-> FALSE]

\* Lines 310-328.  Returns the state and the value returned.
forceTour(M, t) ==
  LET onEligible == CallbackOf(t)
  IN  IF ~Registered(t) \/ ~Target(t) THEN [m |-> M, ret |-> FALSE]
      ELSE IF elem[t] = "absent" THEN [m |-> M, ret |-> FALSE]
      ELSE IF onEligible # NULL
        THEN [m |-> Emit(M, [op |-> "onEligible", tour |-> t, cb |-> onEligible,
                             via |-> "force", gate |-> M.active]),
              ret |-> TRUE]
      ELSE [m |-> M, ret |-> FALSE]

\* ------------------------------------------------------------ steps --------
\* The state a synchronous run M leaves, with the call that started it first
\* in the log.
Apply(M, call) ==
  /\ M.ok
  /\ local' = M.local
  /\ corrupt' = M.corrupt
  /\ activeTourId' = M.active
  /\ observers' = M.obs
  /\ intersectionObservers' = M.io
  /\ evals' = M.evals
  /\ timerq' = M.timerq
  /\ fired' = M.fired
  /\ marked' = M.marked
  /\ log' = <<call>> \o M.log

\* A public call or a change of the environment, and a step of the event loop.
External == events < MaxEvents /\ events' = events + 1

Internal == events' = events

\* A continuation is queued: timers and intersection callbacks are tasks, and
\* a task starts only when the microtask queue is empty.
MicrotaskPending == \E s \in Slots : evals[s].pc \in {"micro", "ret"}

\* new PostHogTours(options), lines 21-42, on a fresh page over the same
\* local store: what an earlier instance left in flight is gone.
Fresh ==
  [Cur EXCEPT !.active = NULL, !.obs = {}, !.io = [t \in TourIds |-> 0],
              !.evals = [s \in Slots |-> FreeSlot], !.timerq = <<>>, !.fired = {}]

Construct ==
  /\ External
  /\ loaded
  /\ Apply(startMonitoringTours(syncLocalStorageWithPostHog(validateFeatureFlags(Fresh))),
           [op |-> "new", tour |-> NULL])
  /\ built' = TRUE
  /\ UNCHANGED env

\* Variant of ConstructNotLoaded that validates the flags before it tests
\* __loaded.
ConstructNotLoaded_ValidatesFirst ==
  /\ External
  /\ ~loaded
  /\ Apply(Emit(validateFeatureFlags(Cur),
                [op |-> "throw", error |-> "PostHogNotInitializedError"]),
           [op |-> "newThrows", tour |-> NULL])
  /\ UNCHANGED <<built, env>>

\* Lines 21-32: the constructor throws before anything but its own fields is
\* touched; the instance is never handed out, and one built earlier goes on.
ConstructNotLoaded ==
  /\ External
  /\ ~loaded
  /\ Apply(Emit(Cur, [op |-> "throw", error |-> "PostHogNotInitializedError"]),
           [op |-> "newThrows", tour |-> NULL])
  /\ UNCHANGED <<built, env>>

CheckTourEligibility(t) ==
  /\ External
  /\ built
  /\ Registered(t)
  /\ Apply(Call(Cur, t), [op |-> "checkTourEligibility", tour |-> t])
  /\ UNCHANGED <<built, env>>

CheckAllTours ==
  /\ External
  /\ built
  /\ Apply(checkAllTours(Cur), [op |-> "checkAllTours", tour |-> NULL])
  /\ UNCHANGED <<built, env>>

MarkTourAsSeen(t) ==
  /\ External
  /\ built
  /\ Registered(t)
  /\ Apply(markTourAsSeen(Cur, t), [op |-> "markTourAsSeen", tour |-> t])
  /\ UNCHANGED <<built, env>>

Reset ==
  /\ External
  /\ built
  /\ Apply(reset(Cur), [op |-> "reset", tour |-> NULL])
  /\ UNCHANGED <<built, env>>

ForceTour(t) ==
  /\ External
  /\ built
  /\ Registered(t)
  /\ LET f == forceTour(Cur, t)
     IN  Apply(Emit(f.m, [op |-> "forced", ret |-> f.ret]), [op |-> "forceTour", tour |-> t])
  /\ UNCHANGED <<built, env>>

\* checkTourEligibility with any id, registered or not.
CheckTourEligibilityAny(t) ==
  /\ External
  /\ built
  /\ Apply(Call(Cur, t), [op |-> "checkTourEligibility", tour |-> t])
  /\ UNCHANGED <<built, env>>

\* markTourAsSeen with any id, registered or not.
MarkTourAsSeenAny(t) ==
  /\ External
  /\ built
  /\ Apply(markTourAsSeen(Cur, t), [op |-> "markTourAsSeen", tour |-> t])
  /\ UNCHANGED <<built, env>>

\* forceTour with any id, registered or not.
ForceTourAny(t) ==
  /\ External
  /\ built
  /\ LET f == forceTour(Cur, t)
     IN  Apply(Emit(f.m, [op |-> "forced", ret |-> f.ret]), [op |-> "forceTour", tour |-> t])
  /\ UNCHANGED <<built, env>>

GetTourConfig(t) ==
  /\ External
  /\ built
  /\ LET g == getTourConfig(Cur, t)
     IN  Apply(Emit(g.m, [op |-> "config", ret |-> g.ret]), [op |-> "getTourConfig", tour |-> t])
  /\ UNCHANGED <<built, env>>

\* The continuation of checkTourEligibility after `await checkVisibility`
\* (lines 147-168), or of checkAllTours after `await checkTourEligibility`
\* (lines 282-291).
Resume(s) ==
  LET e == evals[s]
      M0 == Emit(Cur, [op |-> "resumed", tour |-> e.tour, vis |-> e.vis,
                       gate |-> activeTourId, pc |-> e.pc])
      f == IF e.vis THEN Finish(M0, e.tour, e.res) ELSE [m |-> M0, res |-> e.res]
      M1 == Return(f.m, f.res, IF e.vis THEN "true" ELSE "false")
      results == Append(e.results, e.res)
  IN  /\ e.pc \in {"micro", "ret"}
      /\ IF e.pc = "micro"
           THEN IF e.all
                  THEN Apply([M1 EXCEPT !.evals[s] = [e EXCEPT !.pc = "ret", !.res = f.res]],
                             [op |-> "resume", tour |-> e.tour])
                  ELSE Apply(Release(M1, s), [op |-> "resume", tour |-> e.tour])
           ELSE IF e.res.eligible
                  THEN Apply(Release(Emit(Cur, [op |-> "returnAll", results |-> results]), s),
                             [op |-> "resume", tour |-> NULL])
                  ELSE Apply(Loop(Cur, s, e.idx + 1, results),
                             [op |-> "resume", tour |-> NULL])
      /\ Internal
      /\ UNCHANGED <<built, env>>

\* Lines 222-228: the 30 s timer of the oldest pending wait fires.
Timeout ==
  /\ Internal
  /\ timerq # <<>>
  /\ ~MicrotaskPending
  /\ LET s == Head(timerq)
         e == evals[s]
         t == e.tour
         has == intersectionObservers[t] # 0
         e1 == [e EXCEPT !.timer = FALSE]
         e2 == IF ~has THEN e1
               ELSE IF e.pc = "wait" THEN [e1 EXCEPT !.conn = FALSE, !.pc = "micro", !.vis = FALSE]
               ELSE [e1 EXCEPT !.conn = FALSE]
         M1 == [Cur EXCEPT !.timerq = Tail(@),
                           !.io[t] = 0,
                           !.evals[s] = IF e2.pc = "done" THEN FreeSlot ELSE e2]
     IN  Apply(Emit(M1, [op |-> "timer", tour |-> t, has |-> has,
                         removed |-> intersectionObservers[t], slot |-> s]),
               [op |-> "timeout", tour |-> t])
  /\ UNCHANGED <<built, env>>

\* Lines 210-216: the IntersectionObserver of slot s reports its element
\* intersecting.
Intersect(s) ==
  LET e == evals[s]
      t == e.tour
      M1 == [Cur EXCEPT !.io[t] = 0,
                        !.evals[s] = IF e.pc = "wait"
                                       THEN [e EXCEPT !.conn = FALSE, !.pc = "micro", !.vis = TRUE]
                                       ELSE [e EXCEPT !.conn = FALSE]]
  IN  /\ e.conn
      /\ elem[t] = "inview"
      /\ ~MicrotaskPending
      /\ Apply(Emit(M1, [op |-> "intersecting", tour |-> t,
                         removed |-> intersectionObservers[t], slot |-> s]),
               [op |-> "intersect", tour |-> t])
      /\ Internal
      /\ UNCHANGED <<built, env>>

\* Variant of Mutation whose callback neither disconnects nor deletes its
\* observer.
Mutation_StaysSubscribed(t) ==
  /\ Internal
  /\ t \in observers
  /\ IF elem[t] # "absent"
       THEN Apply(Call(Cur, t), [op |-> "mutation", tour |-> t])
       ELSE Apply(Cur, [op |-> "mutation", tour |-> t])
  /\ UNCHANGED <<built, env>>

RECURSIVE EvaluateFrom(_, _)
\* checkTourEligibility of every registered tour whose target is present,
\* from registry index i on.
EvaluateFrom(M, i) ==
  IF i > Len(tours) THEN M
  ELSE EvaluateFrom(IF Target(tours[i]) /\ elem[tours[i]] # "absent"
                      THEN Call(M, tours[i]) ELSE M,
                    i + 1)

\* Variant of Mutation whose callback, once its element is there, evaluates
\* every tour whose target is present.
Mutation_EvaluatesAll(t) ==
  /\ Internal
  /\ t \in observers
  /\ IF elem[t] # "absent"
       THEN Apply(EvaluateFrom(Emit([Cur EXCEPT !.obs = @ \ {t}],
                                    [op |-> "disconnect", mutation |-> {t},
                                     intersection |-> {}]), 1),
                  [op |-> "mutation", tour |-> t])
       ELSE Apply(Cur, [op |-> "mutation", tour |-> t])
  /\ UNCHANGED <<built, env>>

\* Lines 95-102: the MutationObserver of tour t is notified.
Mutation(t) ==
  /\ Internal
  /\ t \in observers
  /\ IF elem[t] # "absent"
       THEN Apply(Call(Emit([Cur EXCEPT !.obs = @ \ {t}],
                            [op |-> "disconnect", mutation |-> {t}, intersection |-> {}]), t),
                  [op |-> "mutation", tour |-> t])
       ELSE Apply(Cur, [op |-> "mutation", tour |-> t])
  /\ UNCHANGED <<built, env>>

\* ------------------------------------------------------ environment --------
Ids(reg) == {reg[i] : i \in 1..Len(reg)}

TourKeys(reg) == {Key(UserPropertyPrefix, t) : t \in Ids(reg)}

\* The remote snapshots the environment moves between: any set of the tours'
\* keys, beside a person property that is no tour key.
Snapshots(reg) == {S \cup {OtherProperty} : S \in SUBSET TourKeys(reg)}

\* The page adds, removes, scrolls or hides a target element.
ElemChange(t, v) ==
  /\ External
  /\ Registered(t) /\ Target(t)
  /\ elem[t] # v
  /\ elem' = [elem EXCEPT ![t] = v]
  /\ log' = <<[op |-> "dom", tour |-> t]>>
  /\ UNCHANGED <<tours, checkVis, defaultOnEligible, loaded, built, flag, remote, local, corrupt, debug,
                 setItemFails, peopleSetFails,
                 activeTourId, observers, intersectionObservers, evals, timerq, fired, marked>>

\* The remote snapshot changes: a write arrives, or the remote loses keys.
RemoteChange(S) ==
  /\ External
  /\ remote # S
  /\ remote' = S
  /\ log' = <<[op |-> "remote", tour |-> NULL]>>
  /\ UNCHANGED <<tours, checkVis, defaultOnEligible, loaded, built, flag, elem, local, corrupt, debug,
                 setItemFails, peopleSetFails,
                 activeTourId, observers, intersectionObservers, evals, timerq, fired, marked>>

\* The flag service changes its answer for a tour.
FlagChange(t) ==
  /\ External
  /\ Registered(t)
  /\ flag' = [flag EXCEPT ![t] = ~@]
  /\ log' = <<[op |-> "flag", tour |-> t]>>
  /\ UNCHANGED <<tours, checkVis, defaultOnEligible, loaded, built, elem, remote, local, corrupt, debug,
                 setItemFails, peopleSetFails,
                 activeTourId, observers, intersectionObservers, evals, timerq, fired, marked>>

\* ---------------------------------------------------- specifications --------
\* Before construction, over registry reg: any flags, elements, snapshot and
\* local store.
InitOver(reg, visOptions) ==
  /\ tours = reg
  /\ checkVis \in visOptions
  /\ defaultOnEligible = FALSE
  /\ loaded \in BOOLEAN
  /\ built = FALSE
  /\ corrupt = FALSE /\ debug = FALSE /\ setItemFails = FALSE /\ peopleSetFails = FALSE
  /\ flag \in {f \in [TourIds -> BOOLEAN] : \A t \in TourIds \ Ids(reg) : ~f[t]}
  /\ elem \in {x \in [TourIds -> {"absent", "hidden", "inview"}] :
                 \A t \in TourIds : (t \notin Ids(reg) \/ ~Target(t)) => x[t] = "absent"}
  /\ remote \in Snapshots(reg)
  /\ local \in SUBSET TourKeys(reg)
  /\ activeTourId = NULL
  /\ observers = {}
  /\ intersectionObservers = [t \in TourIds |-> 0]
  /\ evals = [s \in Slots |-> FreeSlot]
  /\ timerq = <<>>
  /\ fired = {}
  /\ marked = [t \in TourIds |-> 0]
  /\ events = 0
  /\ log = <<>>

Init == InitOver(<<"a", "b">>, BOOLEAN)

Next ==
  \/ Construct
  \/ ConstructNotLoaded
  \/ \E t \in TourIds : CheckTourEligibility(t)
  \/ CheckAllTours
  \/ \E t \in TourIds : MarkTourAsSeen(t)
  \/ Reset
  \/ \E t \in TourIds : ForceTour(t)
  \/ \E s \in Slots : Resume(s)
  \/ Timeout
  \/ \E s \in Slots : Intersect(s)
  \/ \E t \in TourIds : Mutation(t)
  \/ \E t \in TourIds, v \in {"absent", "hidden", "inview"} : ElemChange(t, v)
  \/ \E S \in Snapshots(tours) : RemoteChange(S)
  \/ \E t \in TourIds : FlagChange(t)

Spec == Init /\ [][Next]_vars

\* The application constructs one instance and calls nothing but
\* markTourAsSeen of the tour being presented, from a task (a click on the
\* tour); flags and stores are fixed and the page stops changing once a tour
\* was marked seen.
InitRerun ==
  /\ InitOver(<<"a", "c", "b">>, {TRUE})
  /\ loaded
  /\ \A t \in {"a", "c", "b"} : flag[t]
  /\ remote = {OtherProperty}
  /\ local = {}

FirstConstruct == ~built /\ Construct

Dismiss == activeTourId # NULL /\ ~MicrotaskPending /\ MarkTourAsSeen(activeTourId)

PageChange(t, v) == (\A u \in TourIds : marked[u] = 0) /\ ElemChange(t, v)

NextRerun ==
  \/ FirstConstruct
  \/ Dismiss
  \/ \E s \in Slots : Resume(s)
  \/ Timeout
  \/ \E s \in Slots : Intersect(s)
  \/ \E t \in TourIds : Mutation(t)
  \/ \E t \in TourIds, v \in {"absent", "hidden", "inview"} : PageChange(t, v)

SpecRerun == InitRerun /\ [][NextRerun]_vars

\* A registry with a tour that has no target ("n") and one that has no
\* onEligible ("q"), with and without defaultOnEligible; ids "b" and "c" are
\* not registered.
InitOptions ==
  /\ tours = <<"a", "n", "q">>
  /\ checkVis \in BOOLEAN
  /\ defaultOnEligible \in BOOLEAN
  /\ loaded = TRUE
  /\ built = FALSE
  /\ corrupt = FALSE /\ debug = FALSE /\ setItemFails = FALSE /\ peopleSetFails = FALSE
  /\ flag \in {f \in [TourIds -> BOOLEAN] : f["n"] /\ ~f["b"] /\ ~f["c"]}
  /\ elem \in {x \in [TourIds -> {"absent", "hidden", "inview"}] :
                 \A t \in {"n", "b", "c"} : x[t] = "absent"}
  /\ remote = {OtherProperty}
  /\ local \in {{}, TourKeys(<<"a", "n", "q">>)}
  /\ activeTourId = NULL
  /\ observers = {}
  /\ intersectionObservers = [t \in TourIds |-> 0]
  /\ evals = [s \in Slots |-> FreeSlot]
  /\ timerq = <<>>
  /\ fired = {}
  /\ marked = [t \in TourIds |-> 0]
  /\ events = 0
  /\ log = <<>>

NextOptions ==
  \/ Construct
  \/ \E t \in TourIds : CheckTourEligibility(t)
  \/ \E t \in TourIds : MarkTourAsSeen(t)
  \/ \E t \in TourIds : ForceTourAny(t)
  \/ \E t \in TourIds : GetTourConfig(t)
  \/ \E s \in Slots : Resume(s)
  \/ Timeout
  \/ \E s \in Slots : Intersect(s)
  \/ \E t \in TourIds : Mutation(t)
  \/ \E t \in TourIds, v \in {"absent", "hidden", "inview"} : ElemChange(t, v)
  \/ \E t \in TourIds : FlagChange(t)

SpecOptions == InitOptions /\ [][NextOptions]_vars

\* Faults of the stores, with and without debug.  Visibility is not checked,
\* so no evaluation waits; the page does not change.
InitFaults ==
  /\ tours = <<"a", "b">>
  /\ checkVis = FALSE
  /\ defaultOnEligible = FALSE
  /\ loaded = TRUE
  /\ built = FALSE
  /\ flag \in {f \in [TourIds -> BOOLEAN] : \A t \in TourIds \ {"a", "b"} : ~f[t]}
  /\ elem \in {x \in [TourIds -> {"absent", "inview"}] :
                 x["b"] = "inview" /\ \A t \in TourIds \ {"a", "b"} : x[t] = "absent"}
  /\ remote \in {{OtherProperty}, {OtherProperty, Key(UserPropertyPrefix, "a")}}
  /\ corrupt \in BOOLEAN
  /\ local \in (IF corrupt THEN {{}} ELSE {{}, {Key(UserPropertyPrefix, "b")}})
  /\ debug \in BOOLEAN
  /\ setItemFails \in BOOLEAN
  /\ peopleSetFails \in BOOLEAN
  /\ activeTourId = NULL
  /\ observers = {}
  /\ intersectionObservers = [t \in TourIds |-> 0]
  /\ evals = [s \in Slots |-> FreeSlot]
  /\ timerq = <<>>
  /\ fired = {}
  /\ marked = [t \in TourIds |-> 0]
  /\ events = 0
  /\ log = <<>>

\* Another script of the page stores text that does not parse under
\* posthog_tours_seen.
Corrupt ==
  /\ External
  /\ ~corrupt
  /\ corrupt' = TRUE
  /\ local' = {}
  /\ log' = <<[op |-> "corrupt", tour |-> NULL]>>
  /\ UNCHANGED <<env, built, activeTourId, observers, intersectionObservers, evals, timerq,
                 fired, marked>>

NextFaults ==
  \/ Construct
  \/ \E t \in TourIds : CheckTourEligibility(t)
  \/ CheckAllTours
  \/ \E t \in TourIds : MarkTourAsSeen(t)
  \/ \E s \in Slots : Resume(s)
  \/ Corrupt

SpecFaults == InitFaults /\ [][NextFaults]_vars

\* Public calls with ids the registry does not hold: the registry is <<"a">>
\* and "b" and "n" are passed as well.  Visibility is not checked.
InitUnknown ==
  /\ InitOver(<<"a">>, {FALSE})
  /\ loaded
  /\ remote = {OtherProperty}

NextUnknown ==
  \/ Construct
  \/ \E t \in {"a", "b", "n"} : CheckTourEligibilityAny(t)
  \/ \E t \in {"a", "b", "n"} : MarkTourAsSeenAny(t)
  \/ \E t \in {"a", "b", "n"} : ForceTourAny(t)
  \/ \E t \in {"a", "b", "n"} \cup InheritedIds : GetTourConfig(t)
  \/ \E s \in Slots : Resume(s)
  \/ \E t \in TourIds, v \in {"absent", "inview"} : ElemChange(t, v)

SpecUnknown == InitUnknown /\ [][NextUnknown]_vars

\* ------------------------------------------------- the strict variant --------
\* src/unnamed/part_002, lines 330-405: the class whose constructor refuses
\* missing flags.  It has a registry and element watchers and nothing else:
\* no evaluation, no callback, no gate, no seen state.

\* The registered ids whose flag is not enabled, in registry order (the
\* argument of PostHogFeatureFlagsNotConfiguredError, src/src/types.ts:33-40).
MissingFlags == SelectSeq(tours, LAMBDA t : ~flag[t])

\* Variant of validateFeatureFlagsStrict that names the first missing flag
\* only.
validateFeatureFlagsStrict_FirstOnly(M) ==
  LET M1 == Emit(M, [op |-> "isFeatureEnabled", queried |-> Ids(tours),
                     missing |-> Ids(MissingFlags)])
  IN  IF MissingFlags # <<>>
        THEN [m |-> Emit(M1, [op |-> "throw",
                              error |-> "PostHogFeatureFlagsNotConfiguredError",
                              flags |-> <<Head(MissingFlags)>>]),
              thrown |-> TRUE]
        ELSE [m |-> M1, thrown |-> FALSE]

\* Lines 359-365.  Returns the state and whether it threw.
validateFeatureFlagsStrict(M) ==
  LET M1 == Emit(M, [op |-> "isFeatureEnabled", queried |-> Ids(tours),
                     missing |-> Ids(MissingFlags)])
  IN  IF MissingFlags # <<>>
        THEN [m |-> Emit(M1, [op |-> "throw",
                              error |-> "PostHogFeatureFlagsNotConfiguredError",
                              flags |-> MissingFlags]),
              thrown |-> TRUE]
        ELSE [m |-> M1, thrown |-> FALSE]

\* Lines 376-400: the first step's target is looked up; a present element is
\* only reported, an absent one gets a MutationObserver.
monitorElementStrict(M, t) ==
  IF elem[t] # "absent"
    THEN Emit(M, [op |-> "console.log", tour |-> t])
    ELSE Emit([M EXCEPT !.obs = @ \cup {t}],
              [op |-> "observe", kind |-> "mutation", tour |-> t])

RECURSIVE MonitorStrictFrom(_, _)
\* Lines 367-374, startMonitoringFirstSteps, from registry index i on.
MonitorStrictFrom(M, i) ==
  IF i > Len(tours) THEN M
  ELSE MonitorStrictFrom(IF Target(tours[i]) THEN monitorElementStrict(M, tours[i]) ELSE M,
                         i + 1)

\* Lines 343-357.  A constructor that throws hands out no instance.
ConstructStrict ==
  /\ External
  /\ loaded
  /\ LET v == validateFeatureFlagsStrict(Cur)
         w == validateFeatureFlagsStrict(Fresh)
     IN  IF v.thrown
           THEN Apply(v.m, [op |-> "newStrict", tour |-> NULL]) /\ UNCHANGED built
           ELSE Apply(MonitorStrictFrom(w.m, 1), [op |-> "newStrict", tour |-> NULL])
                /\ built' = TRUE
  /\ UNCHANGED env

\* Lines 385-392: the MutationObserver of tour t is notified.
MutationStrict(t) ==
  /\ Internal
  /\ t \in observers
  /\ IF elem[t] # "absent"
       THEN Apply(Emit(Emit([Cur EXCEPT !.obs = @ \ {t}], [op |-> "console.log", tour |-> t]),
                       [op |-> "disconnect", mutation |-> {t}, intersection |-> {}]),
                  [op |-> "mutation", tour |-> t])
       ELSE Apply(Cur, [op |-> "mutation", tour |-> t])
  /\ UNCHANGED <<built, env>>

InitStrict ==
  /\ InitOver(<<"a", "b">>, {TRUE})
  /\ loaded
  /\ remote = {OtherProperty}
  /\ local = {}

NextStrict ==
  \/ ConstructStrict
  \/ \E t \in TourIds : MutationStrict(t)
  \/ \E t \in TourIds, v \in {"absent", "hidden", "inview"} : ElemChange(t, v)
  \/ \E t \in TourIds : FlagChange(t)

SpecStrict == InitStrict /\ [][NextStrict]_vars

\* ------------------------------------------------------------ claims --------
\* The positions of the last step's log that hold an effect of kind op.
Entries(op) == {i \in DOMAIN log : log[i].op = op}

\* A callback invoked by an evaluation (not by forceTour).
EligibleCallback(i) == log[i].op = "onEligible" /\ log[i].via = "eligible"

\* The last step was the public call op on tour t.
Called(op, t) == log # <<>> /\ log[1].op = op /\ log[1].tour = t

\* C1: while activeTourId holds a tour id no checkTourEligibility call invokes
\* an onEligible callback: every callback an evaluation invokes saw the gate
\* empty and directly follows that evaluation's claim; a claiming evaluation
\* invokes its callback exactly once; and a step that starts with the gate
\* held invokes a callback only after markTourAsSeen cleared it in that step.
C1_GateSuppressesCallbacks ==
  /\ [](/\ \A i \in DOMAIN log :
             EligibleCallback(i) =>
               /\ log[i].gate = NULL
               /\ i > 1 /\ log[i - 1].op = "claim" /\ log[i - 1].tour = log[i].tour
        /\ \A i \in Entries("claim") :
             CallbackOf(log[i].tour) # NULL =>
               /\ i < Len(log)
               /\ EligibleCallback(i + 1) /\ log[i + 1].tour = log[i].tour)
  /\ [][(activeTourId # NULL /\ log'[1].op # "new") =>
          \A i \in DOMAIN log' :
            (log'[i].op = "onEligible" /\ log'[i].via = "eligible") =>
              \E j \in 1..(i - 1) : log'[j].op = "clear"]_vars

\* C1 witness: the gate is held and an evaluation of another tour has just
\* returned eligible = TRUE without any callback being invoked.
C1_Witness ==
  /\ activeTourId # NULL
  /\ Entries("onEligible") = {}
  /\ \E i \in Entries("return") :
       log[i].res.eligible /\ log[i].res.tourId # activeTourId

\* Two evaluations of different tours are suspended with checkVisibility
\* resolved to TRUE and the gate empty, and the step resumes s and leaves r
\* suspended.
RaceResume(s, r) ==
  /\ s # r
  /\ evals[s].pc = "micro" /\ evals[s].vis
  /\ evals[r].pc = "micro" /\ evals[r].vis
  /\ evals[s].tour # evals[r].tour
  /\ activeTourId = NULL
  /\ log'[1].op = "resume"
  /\ evals'[s].pc # "micro"
  /\ evals'[r] = evals[r]

\* C2 (as amended): the check of the gate and its assignment are one
\* synchronous step after the await, so of two evaluations suspended together
\* the first to resume claims the gate and the second finds it occupied; the
\* tours whose callback was invoked since the last markTourAsSeen are at most
\* the one that holds the gate.
C2_NoDoubleClaim ==
  /\ [](fired \subseteq {activeTourId})
  /\ [][\A s, r \in Slots :
          RaceResume(s, r) => activeTourId' = evals[s].tour /\ fired' = {evals[s].tour}]_vars

\* C2 witness: the first of two concurrently suspended evaluations has just
\* resumed and claimed the gate, the other is still suspended.
C2_Witness ==
  /\ log # <<>> /\ log[1].op = "resume"
  /\ \E i \in Entries("claim") : log[i].tour = activeTourId
  /\ fired = {activeTourId}
  /\ \E r \in Slots : evals[r].pc = "micro" /\ evals[r].vis /\ ~evals[r].all
                      /\ evals[r].tour # activeTourId

\* C2 as stated: after the first of two such evaluations resumed, the second
\* still observes the gate empty.
C2_BothObserveEmpty ==
  [][\A s, r \in Slots : RaceResume(s, r) => activeTourId' = NULL]_vars

\* C3 as stated: the gate changes from a tour id t to empty (or to another
\* tour) only in a markTourAsSeen(t) step of that same tour.
C3_OnlyHolderClears ==
  [][(activeTourId # NULL /\ activeTourId' # activeTourId /\ log'[1].op # "new") =>
       (log'[1].op = "markTourAsSeen" /\ log'[1].tour = activeTourId)]_vars

\* What a checkTourEligibility(t) started now would find, visibility included.
EligibleNow(t) ==
  /\ flag[t]
  /\ Key(UserPropertyPrefix, t) \notin local /\ Key(UserPropertyPrefix, t) \notin remote
  /\ IF checkVis THEN elem[t] = "inview" ELSE elem[t] # "absent"

\* The first eligible tour in registry order, NULL if there is none.
FirstEligible ==
  IF \E i \in DOMAIN tours : EligibleNow(tours[i])
    THEN tours[CHOOSE i \in DOMAIN tours :
                 EligibleNow(tours[i]) /\ \A j \in 1..(i - 1) : ~EligibleNow(tours[j])]
    ELSE NULL

\* Nothing is left to run: no continuation queued, no timer pending, no
\* observer with something to report.
Quiescent ==
  /\ ~MicrotaskPending
  /\ timerq = <<>>
  /\ \A s \in Slots : ~(evals[s].conn /\ elem[evals[s].tour] = "inview")
  /\ \A t \in observers : elem[t] = "absent"

\* C4 as stated: once markTourAsSeen cleared the gate and everything the
\* re-run of checkAllTours set going has run, the first eligible tour in
\* registry order, if any, holds the gate and its callback was invoked.
C4_RerunSurfacesNext ==
  ((\E t \in TourIds : marked[t] > 0) /\ Quiescent /\ FirstEligible # NULL) =>
    (activeTourId = FirstEligible /\ fired = {FirstEligible})

\* C5: once markTourAsSeen(id) has returned, every checkTourEligibility(id)
\* started later, in this instance or in a new one and whatever the remote
\* snapshot holds, returns at once with alreadySeen = TRUE and eligible =
\* FALSE and invokes no callback: both a call started in the current state
\* and the calls the last step made.
C5_MarkedStaysSeen ==
  \A t \in TourIds :
    (Registered(t) /\ marked[t] > 0) =>
      /\ LET r == EvalStart(Cur, t)
         IN  /\ r.kind = "return"
             /\ r.res.alreadySeen /\ ~r.res.eligible
             /\ \A i \in DOMAIN r.m.log : r.m.log[i].op # "onEligible"
      /\ \A i \in Entries("return") :
           (log[i].res.tourId = t /\ log[i].vis = "none") =>
             /\ log[i].res.alreadySeen /\ ~log[i].res.eligible
             /\ (i < Len(log) => log[i + 1].op # "onEligible")
             /\ (i > 1 => log[i - 1].op # "onEligible")

\* C5 witness: checkTourEligibility(id) has just been called for a tour
\* marked seen earlier whose key the remote snapshot does not hold, with its
\* flag on and its target in place.
C5_Witness ==
  \E t \in TourIds :
    /\ Called("checkTourEligibility", t)
    /\ marked[t] > 0
    /\ Key(UserPropertyPrefix, t) \notin remote
    /\ flag[t] /\ elem[t] = "inview"
    /\ \E i \in Entries("return") : log[i].res.tourId = t /\ log[i].res.alreadySeen

\* C6: hasTourBeenSeen(id) returns TRUE iff the key is in the local store or
\* truthy in the remote snapshot; when it returns TRUE the local store holds
\* the key afterwards; a local hit reads no remote and writes nothing.  Shown
\* of a call made in the current state and of the calls the last step made.
C6_SeenLookup ==
  /\ \A t \in TourIds :
       Registered(t) =>
         LET key == Key(UserPropertyPrefix, t)
             h == hasTourBeenSeen(Cur, t)
         IN  /\ h.ret = (key \in local \/ key \in remote)
             /\ (h.ret => key \in h.m.local)
             /\ local \subseteq h.m.local
             /\ (key \in local =>
                   /\ h.m.local = local
                   /\ \A i \in DOMAIN h.m.log :
                        /\ h.m.log[i].op # "setItem"
                        /\ (h.m.log[i].op = "hasTourBeenSeen" => ~h.m.log[i].readRemote))
  /\ \A i \in Entries("hasTourBeenSeen") :
       /\ log[i].ret = (log[i].inLocal \/ log[i].inRemote)
       /\ (log[i].ret => log[i].key \in local)
       /\ (log[i].inLocal => ~log[i].readRemote /\ ~log[i].wrote)
       /\ (log[i].wrote => (/\ i > 1 /\ log[i - 1].op = "setItem"
                            /\ log[i - 1].value = log[i - 1].had \cup {log[i].key}
                            /\ ~log[i].inLocal /\ log[i].inRemote))

\* C6 witness: a lookup outside construction found the key only in the remote
\* snapshot, returned TRUE and wrote it to the local store.
C6_Witness ==
  /\ log # <<>> /\ log[1].op = "checkTourEligibility"
  /\ \E i \in Entries("hasTourBeenSeen") :
       /\ ~log[i].inLocal /\ log[i].inRemote /\ log[i].ret /\ log[i].wrote
       /\ log[i].key \in local

\* C7: no step removes a key from the local store, whatever the remote
\* snapshot does.
C7_LocalMonotone == [][local \subseteq local']_vars

\* C7 witness: the remote snapshot has just dropped a key the local store
\* holds.
C7_Witness ==
  /\ log # <<>> /\ log[1].op = "remote"
  /\ built
  /\ \E t \in TourIds : Registered(t) /\ Key(UserPropertyPrefix, t) \in local
                        /\ Key(UserPropertyPrefix, t) \notin remote
                        /\ marked[t] = 0

\* C8: markTourAsSeen(id) leaves the key in the local store and removes no
\* key; called again right after a markTourAsSeen(id) it leaves the local
\* store as it was; and hasTourBeenSeen(id) is TRUE after each call.
C8_MarkIdempotent ==
  /\ [](\A t \in TourIds :
          Called("markTourAsSeen", t) =>
            /\ Key(UserPropertyPrefix, t) \in local
            /\ hasTourBeenSeen(Cur, t).ret
            /\ hasTourBeenSeen(Cur, t).m.local = local)
  /\ [][\A t \in TourIds :
          (log'[1].op = "markTourAsSeen" /\ log'[1].tour = t) =>
            /\ local \subseteq local'
            /\ Key(UserPropertyPrefix, t) \in local'
            /\ (Called("markTourAsSeen", t) => local' = local)]_vars

\* C8 witness: markTourAsSeen(id) has just been called a second time.
C8_Witness ==
  \E t \in TourIds : Called("markTourAsSeen", t) /\ marked[t] >= 2

\* C9: construction makes the local store what it was plus every key of the
\* remote snapshot that starts with userPropertyPrefix, and so no key without
\* the prefix; it writes the store at most once, and only when a key is
\* missing; it writes nothing to the remote.
C9_ConstructionSync ==
  /\ [][log'[1].op = "new" =>
          /\ local' = local \cup {k \in remote : StartsWith(k, UserPropertyPrefix)}
          /\ remote' = remote
          /\ Cardinality({i \in DOMAIN log' : log'[i].op = "setItem"}) <= 1
          /\ (local' = local => \A i \in DOMAIN log' : log'[i].op # "setItem")]_vars
  /\ [](Called("new", NULL) =>
          /\ Entries("people.set") = {}
          /\ OtherProperty \notin local
          /\ \A k \in remote : StartsWith(k, UserPropertyPrefix) => k \in local)

\* C9 witness: a construction has just copied two keys in one write, from a
\* remote snapshot that also holds a property without the prefix.
C9_Witness ==
  /\ Called("new", NULL)
  /\ Cardinality(Entries("setItem")) = 1
  /\ \E i \in Entries("setItem") : Cardinality(log[i].value \ log[i].had) = 2
  /\ OtherProperty \in remote

\* C10: a result has eligible = TRUE exactly when flagEnabled, targetPresent,
\* not alreadySeen and, when visibility is checked, checkVisibility resolved
\* TRUE; every result carries the tour id, the element iff the target is
\* present, and the values read in that evaluation.
C10_ResultShape ==
  \A i \in Entries("return") :
    LET res == log[i].res
        t == res.tourId
    IN  /\ Registered(t)
        /\ res.eligible = (/\ res.flagEnabled /\ res.targetPresent /\ ~res.alreadySeen
                           /\ (checkVis => log[i].vis = "true"))
        /\ res.element = (IF res.targetPresent THEN t ELSE NULL)
        /\ (log[i].vis = "none" =>
              /\ res.flagEnabled = flag[t]
              /\ res.targetPresent = (Target(t) /\ elem[t] # "absent")
              /\ \E j \in 1..(i - 1) :
                   /\ log[j].op = "hasTourBeenSeen"
                   /\ log[j].key = Key(UserPropertyPrefix, t)
                   /\ log[j].ret = res.alreadySeen
                   /\ \A k \in (j + 1)..(i - 1) : log[k].op \in {"claim", "onEligible"})
        /\ (log[i].vis # "none" =>
              res.flagEnabled /\ res.targetPresent /\ ~res.alreadySeen)

\* C10 witness: an evaluation has just returned eligible = TRUE for a tour
\* that does not hold the gate, with no callback invoked.
C10_Witness ==
  /\ log # <<>> /\ log[1].op = "checkTourEligibility"
  /\ activeTourId # NULL /\ activeTourId # log[1].tour
  /\ \E i \in Entries("return") : log[i].res.eligible /\ log[i].res.tourId = log[1].tour
  /\ Entries("onEligible") = {}
  /\ ~checkVis

\* C11: checkAllTours returns results for a prefix of the registry in
\* registry order; every result but the last has eligible = FALSE; the list
\* ends at the first eligible result, whether or not that tour's callback was
\* invoked; and when no result is eligible there is one result per registered
\* tour.
C11_PrefixUntilEligible ==
  \A i \in Entries("returnAll") :
    LET R == log[i].results
    IN  /\ Len(R) <= Len(tours)
        /\ (tours # <<>> => Len(R) >= 1)
        /\ \A k \in DOMAIN R : R[k].tourId = tours[k]
        /\ \A k \in 1..(Len(R) - 1) : ~R[k].eligible
        /\ ((R = <<>> \/ ~R[Len(R)].eligible) => Len(R) = Len(tours))

\* C11 witness: a pass has just returned fewer results than the registry has
\* tours, ending at an eligible result of a tour that does not hold the gate.
C11_Witness ==
  \E i \in Entries("returnAll") :
    LET R == log[i].results
    IN  /\ R # <<>> /\ Len(R) < Len(tours)
        /\ R[Len(R)].eligible
        /\ activeTourId # NULL /\ activeTourId # R[Len(R)].tourId

\* The step leaves the checkAllTours pass of slot s with an eligible result
\* it did not have before: the pass will return a list that ends with it.
PassFoundEligible(s) ==
  /\ evals'[s].pc = "ret" /\ evals'[s].all /\ evals'[s].res.eligible
  /\ evals'[s] # evals[s]

\* The callbacks evaluations invoked for tour t in the step.
CallbacksNext(t) ==
  {i \in DOMAIN log' : /\ log'[i].op = "onEligible" /\ log'[i].via = "eligible"
                       /\ log'[i].tour = t}

C16_NotLoadedThrows ==
  /\ Called("newThrows", NULL) =>
       /\ ~loaded
       /\ log = <<[op |-> "newThrows", tour |-> NULL],
                  [op |-> "throw", error |-> "PostHogNotInitializedError"]>>
  /\ Called("new", NULL) => loaded
  /\ ~loaded =>
       /\ ~built
       /\ activeTourId = NULL /\ observers = {} /\ timerq = <<>> /\ fired = {}
       /\ \A s \in Slots : evals[s] = FreeSlot
       /\ \A t \in TourIds : intersectionObservers[t] = 0

\* C16 witness: a construction has just thrown where a loaded service would
\* have queried flags, copied a remote key and evaluated a present tour.
C16_Witness ==
  /\ Called("newThrows", NULL)
  /\ \E t \in TourIds :
       /\ Registered(t) /\ flag[t] /\ elem[t] # "absent"
       /\ Key(UserPropertyPrefix, t) \notin local
  /\ \E k \in remote : StartsWith(k, UserPropertyPrefix) /\ k \notin local

\* What forceTour(t) must return: the tour is registered with a target, the
\* target is in the document and a callback exists.
Forceable(t) ==
  Registered(t) /\ Target(t) /\ elem[t] # "absent" /\ CallbackOf(t) # NULL

\* The callbacks forceTour invoked in a log.
Forced(l, t) ==
  {i \in DOMAIN l : l[i].op = "onEligible" /\ l[i].via = "force" /\ l[i].tour = t}

\* C13: forceTour(id) returns TRUE exactly when the tour is registered with a
\* target selector, the target element is present and a callback exists, and
\* then invokes that callback (the tour's onEligible, otherwise
\* defaultOnEligible) exactly once and otherwise none; flag, seen state and
\* visibility play no part.  Shown of a call made in the current state and
\* of the call the last step made.
C13_ForceTourResult ==
  /\ \A t \in TourIds :
       LET f == forceTour(Cur, t)
       IN  /\ f.ret = Forceable(t)
           /\ Cardinality(Forced(f.m.log, t)) = (IF Forceable(t) THEN 1 ELSE 0)
           /\ \A i \in Forced(f.m.log, t) :
                f.m.log[i].cb = (IF OnEligible(t) THEN t ELSE "default")
  /\ \A t \in TourIds :
       Called("forceTour", t) =>
         /\ \E i \in Entries("forced") : log[i].ret = Forceable(t)
         /\ Cardinality(Entries("forced")) = 1
         /\ Cardinality(Forced(log, t)) = (IF Forceable(t) THEN 1 ELSE 0)
         /\ Cardinality(Entries("onEligible")) = Cardinality(Forced(log, t))

\* C13 witness: forceTour has just returned TRUE and invoked
\* defaultOnEligible for a tour whose flag is off, that is already seen and
\* whose target is outside the viewport.
C13_Witness ==
  \E t \in TourIds :
    /\ Called("forceTour", t)
    /\ \E i \in Entries("forced") : log[i].ret
    /\ \E i \in Forced(log, t) : log[i].cb = "default"
    /\ ~flag[t] /\ Key(UserPropertyPrefix, t) \in local /\ elem[t] = "hidden"
    /\ checkVis

\* The instance state a run leaves is the one it found.
SameInstance(M) ==
  /\ M.active = activeTourId /\ M.local = local /\ M.corrupt = corrupt
  /\ M.obs = observers /\ M.io = intersectionObservers
  /\ M.evals = evals /\ M.timerq = timerq

\* C14: forceTour leaves activeTourId, the local store, the watchers and the
\* evaluations in flight as they were and writes nothing to the remote
\* store; what it returns and invokes is the same whoever holds the gate and
\* whatever the local store holds, so it invokes the callback while another
\* tour holds the gate.  Shown of a call made in the current state and of
\* the call the last step made.
C14_ForceTourFrame ==
  /\ \A t \in Ids(tours) :
       LET f == forceTour(Cur, t)
       IN  /\ SameInstance(f.m)
           /\ \A i \in DOMAIN f.m.log : f.m.log[i].op = "onEligible"
           /\ \A g \in Ids(tours) \cup {NULL}, l \in {{}, TourKeys(tours)} :
                LET h == forceTour([Cur EXCEPT !.active = g, !.local = l], t)
                IN  /\ h.ret = f.ret
                    /\ Len(h.m.log) = Len(f.m.log)
                    /\ h.m.active = g /\ h.m.local = l
  /\ \A t \in TourIds :
       Called("forceTour", t) =>
         /\ \A i \in 2..Len(log) : log[i].op \in {"onEligible", "forced"}
         /\ (activeTourId \notin {NULL, t} /\ elem[t] # "absent") =>
              \E i \in Entries("onEligible") : log[i].via = "force" /\ log[i].tour = t

\* C14 witness: forceTour has just invoked the callback of a tour while
\* another tour holds the gate.
C14_Witness ==
  \E t \in TourIds :
    /\ Called("forceTour", t)
    /\ activeTourId \notin {NULL, t}
    /\ activeTourId \in fired
    /\ \E i \in Entries("onEligible") :
         log[i].via = "force" /\ log[i].tour = t /\ log[i].gate = activeTourId

\* The claims of the gate in a log.
Claims(l) == {i \in DOMAIN l : l[i].op = "claim"}

\* C15 (as amended): reset() writes nothing to the remote store, removes no
\* key from the local store and adds to it only keys the remote snapshot
\* holds (the evaluations it restarts sync them); a held gate is the same
\* when reset() returns; an empty gate is claimed before reset() returns
\* only when visibility is not checked and a restarted evaluation found its
\* tour eligible.  Shown of a call made in the current state and of the call
\* the last step made.
C15_ResetFrame ==
  /\ built =>
       LET r == reset(Cur)
       IN  r.ok =>
             /\ local \subseteq r.local /\ (r.local \ local) \subseteq remote
             /\ \A i \in DOMAIN r.log : r.log[i].op \notin {"people.set", "clear", "capture"}
             /\ (activeTourId # NULL => r.active = activeTourId /\ Claims(r.log) = {})
             /\ (r.active # activeTourId =>
                   /\ ~checkVis
                   /\ Cardinality(Claims(r.log)) = 1
                   /\ \A i \in Claims(r.log) : r.log[i].tour = r.active)
  /\ Called("reset", NULL) =>
       /\ Entries("people.set") = {} /\ Entries("clear") = {}
       /\ \A i \in Entries("claim") : ~checkVis /\ log[i].tour = activeTourId
       /\ \A i \in Entries("setItem") : log[i].had \subseteq log[i].value
                                         /\ log[i].value \subseteq log[i].had \cup remote

\* C15 witness: reset() has just returned with the gate claimed by an
\* evaluation it restarted.
C15_Witness ==
  /\ Called("reset", NULL)
  /\ \E i \in Entries("claim") : log[i].tour = activeTourId
  /\ \E i \in Entries("onEligible") : log[i].tour = activeTourId /\ log[i].gate = NULL

\* C15 as stated: when reset() returns, the local store and activeTourId are
\* what they were when it was called.
C15_ResetChangesNothing ==
  built =>
    LET r == reset(Cur)
    IN  r.ok => (r.local = local /\ r.active = activeTourId)

\* C17: in the strict variant, construction over a registry with a tour
\* whose flag is not enabled throws PostHogFeatureFlagsNotConfiguredError
\* naming every such tour id, registers no watcher and invokes no callback;
\* with every flag enabled it does not throw.
C17_StrictRefusesMissingFlags ==
  Called("newStrict", NULL) =>
    /\ \E i \in Entries("isFeatureEnabled") : log[i].queried = Ids(tours)
    /\ Entries("onEligible") = {}
    /\ IF \E t \in Ids(tours) : ~flag[t]
         THEN /\ Cardinality(Entries("throw")) = 1
              /\ \A i \in Entries("throw") :
                   /\ log[i].error = "PostHogFeatureFlagsNotConfiguredError"
                   /\ Ids(log[i].flags) = {t \in Ids(tours) : ~flag[t]}
                   /\ Len(log[i].flags) = Cardinality({t \in Ids(tours) : ~flag[t]})
                   /\ i = Len(log)
              /\ Entries("observe") = {} /\ Entries("console.log") = {}
              /\ (~built => observers = {})
         ELSE /\ Entries("throw") = {}
              /\ built
              /\ observers = {t \in Ids(tours) : Target(t) /\ elem[t] = "absent"}

\* C17 witness: a strict construction has just thrown naming two tours, one
\* of which had its target absent and would have been given a watcher.
C17_Witness ==
  /\ Called("newStrict", NULL)
  /\ \E i \in Entries("throw") : Len(log[i].flags) = 2
  /\ \E t \in Ids(tours) : elem[t] = "absent"
  /\ observers = {} /\ ~built

\* C18: construction succeeds whatever the flags are; an evaluation that
\* reads its tour's flag disabled returns at once with eligible = FALSE,
\* invokes no callback and does not claim the gate, whoever started it (the
\* constructor, a watcher, checkTourEligibility, checkAllTours, reset), so
\* every callback invocation and every claim belongs to an evaluation that
\* read the flag enabled; getTourConfig returns the definition of every
\* registered tour, enabled or not.
C18_DisabledNeverEligible ==
  /\ Called("new", NULL) => built /\ Entries("throw") = {}
  /\ \A i \in Entries("return") :
       ~log[i].res.flagEnabled =>
         /\ ~log[i].res.eligible
         /\ log[i].vis = "none"
         /\ log[i - 1].op = "hasTourBeenSeen"
  /\ \A i \in Entries("claim") \cup {k \in Entries("onEligible") : log[k].via = "eligible"} :
         \E j \in Entries("return") :
           /\ j > i /\ j <= i + 2
           /\ \A k \in (i + 1)..(j - 1) : log[k].op = "onEligible"
           /\ log[j].res.tourId = log[i].tour
           /\ log[j].res.flagEnabled
           /\ (log[j].vis = "none" => flag[log[i].tour])
  /\ \A s \in Slots : evals[s].pc \in {"micro", "wait"} => evals[s].res.flagEnabled
  /\ \A t \in Ids(tours) :
       /\ getTourConfig(Cur, t).ret = t
       /\ ~flag[t] =>
            LET r == EvalStart(Cur, t)
            IN  /\ r.kind = "return" /\ ~r.res.eligible
                /\ r.m.active = activeTourId /\ r.m.fired = fired
                /\ \A i \in DOMAIN r.m.log : r.m.log[i].op \notin {"claim", "onEligible"}

\* C18 witness: a construction has just succeeded with a flag reported
\* missing, and the evaluation of that tour, whose element is in view, which
\* was never seen and for which visibility is not checked, returned
\* eligible = FALSE with the gate left empty.
C18_Witness ==
  /\ Called("new", NULL) /\ built /\ ~checkVis
  /\ \E i \in Entries("isFeatureEnabled") : log[i].missing # {}
  /\ \E i \in Entries("return") :
       /\ ~log[i].res.flagEnabled /\ ~log[i].res.eligible
       /\ log[i].res.targetPresent /\ ~log[i].res.alreadySeen
       /\ elem[log[i].res.tourId] = "inview"
  /\ activeTourId = NULL /\ fired = {}

\* C19: a tour is watched only from a construction or a reset() that found
\* its element absent, and that step starts no evaluation of it; a change of
\* the page alone starts nothing; a notification delivered while the element
\* is absent changes nothing and leaves the watcher subscribed; a
\* notification delivered while the element is present disconnects the
\* watcher, removes it from the observers map and starts exactly one
\* evaluation, of its tour; a tour that is not watched gets no notification.
C19_WatcherFiresOnce ==
  [][\A t \in TourIds :
       LET key == Key(UserPropertyPrefix, t)
           started == {i \in DOMAIN log' : log'[i].op = "hasTourBeenSeen"}
           notified == log'[1].op = "mutation" /\ log'[1].tour = t
       IN  /\ (t \in observers' /\ t \notin observers) =>
                /\ log'[1].op \in {"new", "reset"}
                /\ elem[t] = "absent"
                /\ \E i \in DOMAIN log' :
                     log'[i] = [op |-> "observe", kind |-> "mutation", tour |-> t]
                /\ \A i \in started : log'[i].key # key
           /\ log'[1].op = "dom" => Len(log') = 1 /\ observers' = observers
           /\ notified => t \in observers
           /\ (notified /\ elem[t] = "absent") =>
                /\ Len(log') = 1 /\ observers' = observers
                /\ evals' = evals /\ activeTourId' = activeTourId /\ local' = local
           /\ (notified /\ elem[t] # "absent") =>
                /\ observers' = observers \ {t}
                /\ log'[2] = [op |-> "disconnect", mutation |-> {t}, intersection |-> {}]
                /\ Cardinality(started) = 1
                /\ \A i \in started : log'[i].key = key
  ]_vars

\* C19 witness: the watcher of a tour has just been notified with its
\* element present: it is gone from the observers map and the evaluation it
\* started has claimed the gate for its tour.
C19_Witness ==
  \E t \in Ids(tours) :
    /\ Called("mutation", t)
    /\ t \notin observers
    /\ Len(log) > 1 /\ log[2].op = "disconnect"
    /\ \E i \in Entries("onEligible") : log[i].tour = t
    /\ activeTourId = t

\* C20: an evaluation that gets as far as checkVisibility with its element
\* outside the viewport is suspended; a checkVisibility promise that is
\* resolved false belongs to a wait whose own timer has fired and whose
\* IntersectionObserver is disconnected; and the continuation of a false
\* resolution returns eligible = FALSE on the spot, with no callback, no
\* claim and the gate as it found it.  No other path returns a result after
\* a false resolution.
C20_FalseOnlyAtTimeout ==
  /\ \A s \in Slots :
       (evals[s].pc = "micro" /\ ~evals[s].vis) =>
         /\ ~evals[s].timer /\ ~evals[s].conn
         /\ \A i \in DOMAIN timerq : timerq[i] # s
  /\ \A t \in Ids(tours) :
       (/\ checkVis /\ Target(t) /\ flag[t] /\ elem[t] = "hidden"
        /\ Key(UserPropertyPrefix, t) \notin local \cup remote) =>
         EvalStart(Cur, t).kind = "wait"
  /\ \A i \in Entries("resumed") :
       (log[i].pc = "micro" /\ ~log[i].vis) =>
         /\ log[1].op = "resume" /\ log[1].tour = log[i].tour
         /\ log[i + 1].op = "return"
         /\ log[i + 1].vis = "false"
         /\ ~log[i + 1].res.eligible
         /\ log[i + 1].res.tourId = log[i].tour
         /\ Entries("claim") = {} /\ Entries("onEligible") = {}
         /\ activeTourId = log[i].gate
  /\ \A i \in Entries("return") :
       log[i].vis = "false" =>
         /\ i > 1 /\ log[i - 1].op = "resumed" /\ ~log[i - 1].vis
         /\ ~log[i].res.eligible

\* C20 witness: the wait of a tour that is enabled, present and unseen was
\* resolved false by its timer, and its continuation has just returned
\* eligible = FALSE with the gate empty and no callback invoked.
C20_Witness ==
  /\ log # <<>> /\ log[1].op = "resume"
  /\ \E i \in Entries("resumed") : ~log[i].vis /\ log[i].pc = "micro"
  /\ \E i \in Entries("return") :
       /\ log[i].vis = "false" /\ ~log[i].res.eligible
       /\ log[i].res.flagEnabled /\ log[i].res.targetPresent /\ ~log[i].res.alreadySeen
  /\ activeTourId = NULL /\ fired = {}

\* C21 as stated: a checkVisibility invocation that is still unresolved has
\* its timer pending, so that the timer resolves it false when it fires; and
\* once a wait is resolved or its timer has fired, its IntersectionObserver
\* is disconnected, so that the later of the two does nothing.
C21_ResolvesExactlyOnce ==
  \A s \in Slots :
    /\ evals[s].pc = "wait" => evals[s].timer
    /\ evals[s].conn => (evals[s].pc = "wait" /\ evals[s].timer)

\* The steps that read the local store: a construction, a markTourAsSeen
\* that got past the remote write, and any step that evaluated a tour.
ReadsStore ==
  /\ log # <<>>
  /\ \/ log[1].op = "new"
     \/ log[1].op = "markTourAsSeen" /\ Entries("throw") = {}
     \/ Entries("hasTourBeenSeen") # {}

\* C22: a read of a local store whose text does not parse returns the empty
\* map and removes the entry, so that after any step that read the store the
\* text parses; no such step throws; and when writes succeed, the store
\* after markTourAsSeen(id) holds id's key and, if the text was discarded in
\* that step, nothing else but keys the step wrote from the remote snapshot.
C22_CorruptStoreRecovered ==
  /\ corrupt =>
       LET g == getSeenToursFromStorage(Cur)
       IN  /\ g.ret = {} /\ ~g.m.corrupt /\ g.m.local = {}
           /\ \E i \in DOMAIN g.m.log : g.m.log[i].op = "removeItem"
  /\ corrupt => local = {}
  /\ ReadsStore => ~corrupt
  /\ ~peopleSetFails => Entries("throw") = {}
  /\ \A i \in Entries("hasTourBeenSeen") :
       (\E j \in Entries("removeItem") : j < i /\ \A k \in Entries("setItem") : k > i) =>
         ~log[i].inLocal
  /\ \A t \in Ids(tours) :
       (Called("markTourAsSeen", t) /\ ~peopleSetFails /\ ~setItemFails) =>
         /\ Key(UserPropertyPrefix, t) \in local
         /\ Entries("removeItem") # {} => local \subseteq {Key(UserPropertyPrefix, t)} \cup remote

\* C22 witness: markTourAsSeen has just found text that does not parse,
\* removed it and stored a map that holds its tour's key alone.
C22_Witness ==
  \E t \in Ids(tours) :
    /\ Called("markTourAsSeen", t)
    /\ Entries("removeItem") # {} /\ Entries("throw") = {}
    /\ ~corrupt /\ local = {Key(UserPropertyPrefix, t)}
    /\ ~debug

\* C23: a markTourAsSeen(t) during which localStorage.setItem throws (and
\* people.set does not) throws nothing: it issued the remote write of t's
\* key, then attempted the local write, captured tour_seen, cleared the gate
\* and started checkAllTours at the first registered tour; nothing was
\* stored; and the failure shows only as one console.error per failed write,
\* and only with debug on.
C23_WriteFailureContained ==
  \A t \in Ids(tours) :
    (Called("markTourAsSeen", t) /\ setItemFails /\ ~peopleSetFails) =>
      /\ Entries("throw") = {} /\ Entries("setItem") = {}
      /\ \E i \in Entries("people.set"), j \in Entries("setItemThrows"),
            k \in Entries("capture"), c \in Entries("clear"), h \in Entries("hasTourBeenSeen") :
           /\ i < j /\ j < k /\ k < c /\ c < h
           /\ log[i].key = Key(UserPropertyPrefix, t)
           /\ Key(UserPropertyPrefix, t) \in log[j].value
           /\ log[k].tour = t
           /\ log[h].key = Key(UserPropertyPrefix, tours[1])
           /\ \A x \in Entries("clear") : x = c
           /\ \A x \in Entries("hasTourBeenSeen") : x >= h
      /\ Cardinality(Entries("people.set")) = 1 /\ Cardinality(Entries("capture")) = 1
      /\ (activeTourId # NULL => \E i \in Entries("claim") : log[i].tour = activeTourId)
      /\ marked[t] > 0
      /\ \A i \in Entries("setItemThrows") :
           IF debug
             THEN i < Len(log) /\ log[i + 1] = [op |-> "console", level |-> "error", what |-> "save"]
             ELSE Entries("console") = {}
      /\ \A i \in Entries("console") :
           \/ log[i].what = "save" /\ log[i - 1].op = "setItemThrows"
           \/ log[i].what = "parse" /\ log[i + 1].op = "removeItem"

\* C23 witness: with debug on, markTourAsSeen of the tour that held the gate
\* has just returned after a local write that threw: the failure was
\* reported, the gate was cleared and the re-run has started.
C23_Witness ==
  \E t \in Ids(tours) :
    /\ Called("markTourAsSeen", t)
    /\ setItemFails /\ debug
    /\ \E i \in Entries("setItemThrows") : log[i + 1].op = "console"
    /\ \E i \in Entries("clear") : log[i].held = t
    /\ Entries("hasTourBeenSeen") # {}

\* C24 as stated: a public operation given an id that is not registered
\* raises nothing: checkTourEligibility returns a result with eligible =
\* FALSE, forceTour returns FALSE, getTourConfig returns undefined and
\* markTourAsSeen does not throw.
C24_UnknownIdNegative ==
  \A t \in TourIds \ Ids(tours) :
    /\ Called("checkTourEligibility", t) =>
         /\ Entries("reject") = {}
         /\ \E i \in Entries("return") : ~log[i].res.eligible
    /\ Called("forceTour", t) => \A i \in Entries("forced") : ~log[i].ret
    /\ Called("getTourConfig", t) => \A i \in Entries("config") : log[i].ret = "undefined"
    /\ Called("markTourAsSeen", t) => Entries("throw") = {}

\* C25 (as amended): for a tour registered without a target selector,
\* checkTourEligibility returns at once a result with eligible = FALSE,
\* element null and targetPresent = FALSE that reports the flag and the seen
\* state as read; it invokes no callback, claims no gate and waits for no
\* visibility; and such a tour is never watched.  Shown of a call made in
\* the current state and of the call the last step made.
C25_NoTargetNeverEligible ==
  \A t \in Ids(tours) :
    ~Target(t) =>
      LET r == EvalStart(Cur, t)
          key == Key(UserPropertyPrefix, t)
      IN  /\ r.kind = "return"
          /\ r.res = [eligible |-> FALSE, element |-> NULL, tourId |-> t,
                      flagEnabled |-> flag[t], targetPresent |-> FALSE,
                      alreadySeen |-> (key \in local \/ key \in remote)]
          /\ r.m.active = activeTourId /\ r.m.evals = evals
          /\ \A i \in DOMAIN r.m.log : r.m.log[i].op \in {"hasTourBeenSeen", "setItem"}
          /\ t \notin observers /\ intersectionObservers[t] = 0
          /\ \A s \in Slots : evals[s].pc \in {"micro", "wait"} => evals[s].tour # t
          /\ Called("checkTourEligibility", t) =>
               /\ Entries("onEligible") = {} /\ Entries("claim") = {}
               /\ Cardinality(Entries("return")) = 1
               /\ \A i \in Entries("return") :
                    /\ ~log[i].res.eligible /\ log[i].res.element = NULL
                    /\ ~log[i].res.targetPresent /\ log[i].res.flagEnabled = flag[t]
                    /\ log[i].vis = "none"

\* C25 witness: checkTourEligibility of the tour without target has just
\* returned eligible = FALSE with its flag enabled, the tour unseen and the
\* gate empty.
C25_Witness ==
  /\ Called("checkTourEligibility", "n")
  /\ flag["n"] /\ activeTourId = NULL
  /\ \E i \in Entries("return") :
       /\ log[i].res.tourId = "n" /\ ~log[i].res.eligible
       /\ log[i].res.flagEnabled /\ ~log[i].res.alreadySeen

\* C25 as stated: for a tour without target, the result is eligible exactly
\* when the flag is enabled and the tour is unseen.
C25_NoTargetByFlagAndSeen ==
  \A t \in Ids(tours) :
    (~Target(t) /\ Called("checkTourEligibility", t)) =>
      \A i \in Entries("return") :
        log[i].res.eligible = (log[i].res.flagEnabled /\ ~log[i].res.alreadySeen)

\* C26: a markTourAsSeen(id) call issues exactly one remote write, of id's
\* key; writes the local store, right after it, with the map it read plus
\* that key, so that the local store holds the key when the call returns;
\* and captures exactly one event, tour_seen, with id and the name the tour
\* was registered with.
C26_MarkEffects ==
  \A t \in Ids(tours) :
    Called("markTourAsSeen", t) =>
      LET key == Key(UserPropertyPrefix, t)
      IN  /\ Cardinality(Entries("people.set")) = 1
          /\ Cardinality(Entries("capture")) = 1
          /\ log[2] = [op |-> "people.set", key |-> key]
          /\ log[3].op = "setItem" /\ log[3].value = log[3].had \cup {key}
          /\ log[4] = [op |-> "capture", event |-> "tour_seen", tour |-> t,
                       name |-> <<"name", t>>]
          /\ key \in local
          /\ \A i \in Entries("setItem") : key \in log[i].value

\* C26 witness: markTourAsSeen has just written a key the local store did
\* not hold, beside another it held, while the remote snapshot has neither.
C26_Witness ==
  \E t \in Ids(tours) :
    /\ Called("markTourAsSeen", t)
    /\ Key(UserPropertyPrefix, t) \notin log[3].had
    /\ log[3].had # {}
    /\ remote = {OtherProperty}
    /\ Cardinality(Entries("capture")) = 1

\* C27 as stated: getTourConfig(id) returns the definition of a registered
\* id and undefined for every other id, and leaves registry, gate, seen
\* state and watchers as they were.
C27_AbsentForOtherIds ==
  /\ tours = <<"a">>
  /\ \A t \in TourIds \cup InheritedIds :
       /\ getTourConfig(Cur, t).m = Cur
       /\ Called("getTourConfig", t) =>
            \A i \in Entries("config") :
              log[i].ret = (IF t \in Ids(tours) THEN t ELSE "undefined")

\* The console calls of the last step that report `what`.
Diagnostics(what) == {i \in Entries("console") : log[i].what = what}

\* C28: with debug off no step prints anything.  With debug on, a
\* construction that finds flags missing prints one console.warn naming
\* them, every read that finds unparsable text prints one console.warn
\* before it removes the text, and every local write that throws prints one
\* console.error; nothing else is printed.
C28_DiagnosticsOnlyInDebug ==
  /\ ~debug => Entries("console") = {}
  /\ debug =>
       /\ \A i \in Entries("isFeatureEnabled") :
            IF log[i].missing # {}
              THEN log[i + 1] = [op |-> "console", level |-> "warn", what |-> "flags"]
              ELSE Diagnostics("flags") = {}
       /\ \A i \in Entries("removeItem") :
            log[i - 1] = [op |-> "console", level |-> "warn", what |-> "parse"]
       /\ \A i \in Entries("setItemThrows") :
            i < Len(log) /\ log[i + 1] = [op |-> "console", level |-> "error", what |-> "save"]
       /\ \A i \in Diagnostics("flags") : log[i - 1].op = "isFeatureEnabled"
       /\ \A i \in Diagnostics("parse") : i < Len(log) /\ log[i + 1].op = "removeItem"
       /\ \A i \in Diagnostics("save") : log[i - 1].op = "setItemThrows"
       /\ Entries("console") = Diagnostics("flags") \cup Diagnostics("parse")
                                 \cup Diagnostics("save")
  /\ Called("new", NULL) =>
       /\ Cardinality(Entries("isFeatureEnabled")) = 1
       /\ \A i \in Entries("isFeatureEnabled") :
            log[i].missing = {t \in Ids(tours) : ~flag[t]}

\* C28 witness: with debug on, a construction has just printed all three
\* diagnostics: flags are missing, the stored text did not parse, and the
\* write of the keys synced from the remote snapshot threw.
C28_Witness ==
  /\ Called("new", NULL) /\ debug
  /\ Diagnostics("flags") # {} /\ Diagnostics("parse") # {} /\ Diagnostics("save") # {}

\* The local writes of the last step, those that threw included.
LocalWrites == Entries("setItem") \cup Entries("setItemThrows")

C30_RemoteFailureContained ==
  \A t \in Ids(tours) :
    (Called("markTourAsSeen", t) /\ peopleSetFails) =>
      /\ Entries("throw") = {}
      /\ \E i \in Entries("people.set"), j \in LocalWrites, c \in Entries("clear"),
            h \in Entries("hasTourBeenSeen") : i < j /\ j < c /\ c < h
      /\ marked[t] > 0

\* The slots whose IntersectionObserver for tour t is connected.
LiveVisibility(t) == {s \in Slots : evals[s].conn /\ evals[s].tour = t}

\* C31 as stated: each tour id has at most one connected IntersectionObserver,
\* and every connected one is the one recorded under its tour id in
\* intersectionObservers.  (observers holds at most one MutationObserver per
\* id: monitorElement runs once per registry key, on a map just cleared.)
C31_OneLiveSubscription ==
  \A t \in TourIds :
    /\ Cardinality(LiveVisibility(t)) <= 1
    /\ \A s \in LiveVisibility(t) : intersectionObservers[t] = s

\* The wait of slot s was disposed by reset: its IntersectionObserver was
\* disconnected and removed from the map while its promise was unresolved.
Disposed(s) == evals[s].pc = "wait" /\ ~evals[s].conn

\* C32 as stated: the timer of a wait that reset disposed does nothing when
\* it fires: it resolves no promise and removes no entry from
\* intersectionObservers.
C32_DisposedTimerIsNoOp ==
  [][(timerq # <<>> /\ Disposed(Head(timerq)) /\ log'[1].op = "timeout") =>
       /\ evals'[Head(timerq)].pc # "micro"
       /\ intersectionObservers' = intersectionObservers]_vars

\* C33 as stated, in its finite form: a call suspended in the visibility
\* wait always has something left that resolves the wait, its timer pending
\* or its IntersectionObserver connected; a wait with neither never ends and
\* its checkTourEligibility or checkAllTours call never returns.
C33_EveryWaitCanEnd ==
  \A s \in Slots : evals[s].pc = "wait" => (evals[s].timer \/ evals[s].conn)

\* ------------------------------------------------- a shared local store ----
\* Another PostHogTours instance of the page, over the same localStorage,
\* runs markTourAsSeen(t): its read, merge and write of the store (lines
\* 263-265) are one synchronous run; its gate, watchers and evaluations are
\* its own.
OtherInstanceMark(t) ==
  /\ External
  /\ LET g == getSeenToursFromStorage(Cur)
         M2 == saveSeenToursToStorage(g.m, g.ret \cup {Key(UserPropertyPrefix, t)})
     IN  Apply([M2 EXCEPT !.marked[t] = @ + 1], [op |-> "other.markTourAsSeen", tour |-> t])
  /\ UNCHANGED <<built, env>>

\* This instance registers a and b; the other one also marks c.  Visibility
\* is not checked.
InitShared ==
  /\ InitOver(<<"a", "b">>, {FALSE})
  /\ loaded
  /\ \A t \in {"a", "b"} : elem[t] # "hidden"

NextShared ==
  \/ Construct
  \/ \E t \in TourIds : CheckTourEligibility(t)
  \/ \E t \in TourIds : MarkTourAsSeen(t)
  \/ \E t \in {"a", "c"} : OtherInstanceMark(t)
  \/ \E s \in Slots : Resume(s)
  \/ \E S \in Snapshots(tours) : RemoteChange(S)

SpecShared == InitShared /\ [][NextShared]_vars

\* C34: every write of the local store stores the map read just before it
\* with keys added and none removed or changed: markTourAsSeen(t) adds t's
\* key, a sync from the remote snapshot adds keys of this prefix the
\* snapshot holds; the store then holds what the last write stored.  So a
\* key that markTourAsSeen of any instance sharing the store wrote is still
\* there after every later write of another instance.
C34_ReadMergeWrite ==
  /\ \A i \in Entries("setItem") :
       /\ log[i].had \subseteq log[i].value
       /\ \A k \in log[i].value \ log[i].had :
            \/ k \in remote /\ StartsWith(k, UserPropertyPrefix)
            \/ log[1].op \in {"markTourAsSeen", "other.markTourAsSeen"}
               /\ k = Key(UserPropertyPrefix, log[1].tour)
       /\ \A j \in Entries("setItem") : j > i => log[i].value \subseteq log[j].had
  /\ \A i \in Entries("setItem") :
       (\A j \in Entries("setItem") : j <= i) => local = log[i].value
  /\ \A t \in TourIds : marked[t] > 0 => Key(UserPropertyPrefix, t) \in local

\* C34 witness: this instance's markTourAsSeen(a) has just rewritten a store
\* that held c's key, written by the other instance, and b's: the store
\* holds all three.
C34_Witness ==
  /\ Called("markTourAsSeen", "a")
  /\ marked["c"] > 0
  /\ \E i \in Entries("setItem") :
       /\ log[i].had = {Key(UserPropertyPrefix, "b"), Key(UserPropertyPrefix, "c")}
       /\ log[i].value = TourKeys(<<"a", "b", "c">>)
  /\ local = TourKeys(<<"a", "b", "c">>)

\* The evaluations of tour t the last step started, and the mutation
\* watchers it registered for t.
Started(t) == {i \in Entries("hasTourBeenSeen") : log[i].key = Key(UserPropertyPrefix, t)}

Watched(t) == {i \in Entries("observe") : log[i].kind = "mutation" /\ log[i].tour = t}

\* What startMonitoringTours does for each registered tour: one evaluation
\* and no mutation watcher when the target is present, one mutation watcher
\* and no evaluation when it is absent, neither without a selector.
MonitoringStarted ==
  \A t \in Ids(tours) :
    /\ (Target(t) /\ elem[t] # "absent") =>
         Cardinality(Started(t)) = 1 /\ Watched(t) = {} /\ t \notin observers
    /\ (Target(t) /\ elem[t] = "absent") =>
         Cardinality(Watched(t)) = 1 /\ Started(t) = {} /\ t \in observers
    /\ ~Target(t) => Started(t) = {} /\ Watched(t) = {} /\ t \notin observers

\* C35 as stated: a construction or reset() has done for each tour what
\* startMonitoringTours does, and reset() has first disconnected and removed
\* every watcher and visibility subscription that was live: the mutation
\* watchers and connected IntersectionObservers left are those it has just
\* created and recorded.
C35_MonitoringStart ==
  /\ (Called("new", NULL) \/ Called("reset", NULL)) => MonitoringStarted
  /\ Called("reset", NULL) =>
       /\ \E i \in Entries("disconnect") : i = 2
       /\ \A s \in Slots : evals[s].conn => intersectionObservers[evals[s].tour] = s

\* Tour t was seen when the effect at position i of the last step was made:
\* the remote snapshot holds its key, or the local store held it then.
SeenAt(i, t) ==
  LET key == Key(UserPropertyPrefix, t)
  IN  \/ key \in remote
      \/ key \in local /\ \A j \in Entries("setItem") : j > i => key \in log[j].had

\* C36 as stated: no evaluation invokes the callback of a tour that is seen,
\* in the local or the remote store, at the moment of the invocation.
C36_NoCallbackForSeenTour ==
  \A i \in DOMAIN log : EligibleCallback(i) => ~SeenAt(i, log[i].tour)

\* C37 as stated: an evaluation that sets activeTourId to a tour invokes a
\* callback for that tour next, and the tour that holds the gate is one
\* whose callback was invoked since the gate was last cleared.
C37_GateHeldMeansShown ==
  /\ \A i \in Entries("claim") :
       /\ i < Len(log)
       /\ EligibleCallback(i + 1) /\ log[i + 1].tour = log[i].tour
  /\ activeTourId # NULL => activeTourId \in fired

\* C38 as stated: the tour that holds the gate, which is showing and not
\* marked seen, is not shown again: a step that clears the gate invokes the
\* callback of the tour that held it only if it is markTourAsSeen of that
\* very tour.  (While the gate is held no callback is invoked at all, C1.)
C38_ShownOnceUntilMarked ==
  \A i \in Entries("clear") :
    \A j \in DOMAIN log :
      (j > i /\ EligibleCallback(j) /\ log[j].tour = log[i].held) =>
        (log[1].op = "markTourAsSeen" /\ log[1].tour = log[i].held)

\* The first positions of the log of a step made by a public call.
PublicCalls ==
  {"new", "newThrows", "checkTourEligibility", "checkAllTours", "markTourAsSeen",
   "reset", "forceTour", "getTourConfig"}

\* Something is in flight that may still evaluate tour t or invoke its
\* callback: its mutation watcher, an evaluation of it suspended at the
\* await, or a checkAllTours pass that has not reached it and has not found
\* an eligible tour.
Pending(t) ==
  \/ t \in observers
  \/ \E s \in Slots : evals[s].tour = t /\ evals[s].pc \in {"wait", "micro"}
  \/ \E s \in Slots :
       /\ evals[s].all
       /\ \/ evals[s].pc \in {"wait", "micro"}
          \/ evals[s].pc = "ret" /\ ~evals[s].res.eligible
       /\ \E i \in DOMAIN tours : tours[i] = t /\ i > evals[s].idx

\* C39 (as amended): a tour's callback is invoked without a public call only
\* by what is already in flight for it.  Once no mutation watcher, suspended
\* evaluation or checkAllTours pass is left for a tour, no timer, observer
\* notification, continuation or change of the page, flags or stores
\* evaluates it or invokes its callback, however eligible it has become: it
\* stays so until the next public call.
C39_NoCallbackWithoutEvaluation ==
  [][log'[1].op \notin PublicCalls =>
       \A t \in Ids(tours) :
         ~Pending(t) =>
           /\ ~Pending(t)'
           /\ \A i \in DOMAIN log' : ~(log'[i].op = "onEligible" /\ log'[i].tour = t)]_vars

\* C39 witness: the evaluation of a tour at construction or later ended on
\* its disabled flag, and the flag has just been enabled: the tour is
\* enabled, in the viewport and unseen, the gate is empty, nothing is left
\* to run and nothing is in flight for the tour.
C39_Witness ==
  \E t \in Ids(tours) :
    /\ built /\ log # <<>> /\ log[1].op = "flag" /\ log[1].tour = t
    /\ EligibleNow(t) /\ elem[t] = "inview"
    /\ activeTourId = NULL /\ fired = {}
    /\ Quiescent /\ ~Pending(t)
    /\ \A s \in Slots : evals[s].pc = "free"

\* C39 as stated, in its finite form: when nothing is left to run, no tour
\* is enabled, present, visible and unseen while the gate is empty.
C39_EligibleIsShown ==
  (built /\ Quiescent) =>
    \A t \in Ids(tours) : EligibleNow(t) => activeTourId # NULL

====
